---- MODULE Spec2Model ----
(***************************************************************************)
(* typre: the typing session engine.                                       *)
(*                                                                         *)
(* State machine of Test::run (src/src/test.rs) together with the          *)
(* renderer WordsRender (src/src/ui.rs) it drives.  One action is one      *)
(* iteration of the session loop: take a key (or time out), apply it, and   *)
(* render the next frame.  A Rust panic (unwrap on None, index out of      *)
(* range, unreachable!) ends the process: the model moves to status        *)
(* "panic" and keeps the variables as they are at the panicking call;      *)
(* nothing runs after it.                                                  *)
(*                                                                         *)
(* Spec is the session on a working terminal that can be resized;          *)
(* SpecFixed keeps the width fixed; SpecClock lets the monotonic clock     *)
(* that stamps the events advance; SpecIO lets terminal operations fail;   *)
(* SpecWrap applies wrap to every bounded word sequence and width;         *)
(* SpecThread starts at main's argument checks and runs the session with   *)
(* the input thread, the channel and resizes interleaved; SpecLoop runs    *)
(* the loop with the input thread ending and terminal operations failing. *)
(* SpecDraw,                                                               *)
(* SpecChoose, SpecNumbers and SpecPunct apply the bounded integer draws   *)
(* (src/src/rand.rs), the sampling of the words, the numbers pass and the  *)
(* punctuation pass (src/src/words.rs) to every bounded input.             *)
(***************************************************************************)
EXTENDS Integers, Sequences, FiniteSets, TLC

\* ---------------------------------------------------------------- bounds
\* Most Input events a session logs (caps the otherwise unbounded log).
MaxInputs == 3

\* Latest reading of the monotonic clock in a session (caps the clock).
MaxClock == 1

\* Most words and the widest text box of the layouts wrap is applied to.
MaxWrapWords == 3
MaxWrapWidth == 4

\* Reduced integer widths, in bits: u8; the u32 gen_u32 gives; u64 and
\* usize, which is also the width of what gen_u64 gives.
U8Bits == 2
GenU32Bits == 3
U64Bits == 3

\* Most keys the input thread decodes.
MaxKeys == 3

\* Most words of a corpus.
MaxCorpus == 4

\* Most raw values one bounded draw takes from the generator (caps the
\* rejection loop).
MaxDraws == 2

\* ------------------------------------------------------------- alphabet
\* Characters: "a" is a narrow letter, "W" a wide (two column) character,
\* " " the space and "\n" what Enter delivers.
NoWidth == -1

\* unicode_width::UnicodeWidthChar::width: None for control characters.
CharWidth(c) ==
    CASE c = "W" -> 2
      [] c = "\n" -> NoWidth
      [] OTHER -> 1

\* Word sequences choose_with can hand to Test::new (non-empty by its
\* assert).  WordSet::load keeps blank lines, so a word may be empty.
WordLists ==
    { << <<"a">> >>,
      << <<>> >>,
      << <<"a">>, <<>> >>,
      << <<>>, <<"a">> >>,
      << <<"a", "W">>, <<"a">> >>,
      << <<"a">>, <<"a", "W">> >>,
      << <<"a">>, <<"a">>, <<"a">> >> }

\* The punct and numbers flags a session is created with.
Flags == { <<TRUE, FALSE>>, <<FALSE, TRUE>> }

\* Terminal column counts; the text box is col / 2 columns wide.
Cols == {4, 9}

\* termion::event::Key values the input thread can deliver.
Key(kind, c) == [kind |-> kind, c |-> c]
CharKeys == { Key("Char", c) : c \in {"a", "W", " ", "\n"} }
QuitKeys == { Key("Ctrl", c) : c \in {"c", "d", "q", "z"} } \cup { Key("Esc", "") }
Backspace == Key("Backspace", "")
OtherKeys == { Key("Left", ""), Key("F", "1"), Key("Alt", "a"), Key("Ctrl", "a") }
Keys == CharKeys \cup QuitKeys \cup OtherKeys \cup {Backspace}

\* ---------------------------------------------------------------- state
VARIABLES
    words,        \* Test.words: the session's target words
    punct,        \* Test.punct
    numbers,      \* Test.numbers
    timer,        \* Test.timer.start: <<>> is None, <<"started">> is Some
    input,        \* Test.input: pending input of the current word
    word,         \* Test.word: index of the current word (0-based)
    pos,          \* Test.pos: intra-word cursor
    steps,        \* run's local event log
    quit,         \* run's local quit: <<>> until the loop breaks
    result,       \* what run returns: <<>> is None, <<r>> is Some(r)
    status,       \* "running" (in the loop), "done" (returned Ok), "panic"
    render,       \* the WordsRender: words, lines, word, line, pos
    screen,       \* what the last WordsRender::render wrote to the terminal
    cols,         \* the terminal's current column count
    exact,        \* history: every key so far was the next expected key
    timer_starts, \* history: calls of Timer::start
    timer_stops,  \* history: calls of Timer::stop that found it running
    now,          \* the monotonic clock Instant::now() reads
    instants,     \* Step.instant of each event of the log, in log order
    term,         \* the terminal: raw mode, alternate screen, cursor shape
    io_errors,    \* history: terminal operations that returned an error
    thread,       \* the input thread: "unspawned", "reading" or "exited"
    decoded,      \* history: the keys the input thread decoded, in order
    chan,         \* the mpsc channel: keys sent and not yet received
    applied,      \* history: the keys the loop received from the channel
    call          \* the library call in progress outside a session

vars == << words, punct, numbers, timer, input, word, pos, steps, quit, result,
           status, render, screen, cols, exact, timer_starts, timer_stops, now,
           instants, term, io_errors, thread, decoded, chan, applied, call >>

\* What no handler of the loop touches, and the channel.
outside == << thread, decoded, call >>
channel == << chan, applied >>

\* Everything but the library call in progress.
program == << words, punct, numbers, timer, input, word, pos, steps, quit,
              result, status, render, screen, cols, exact, timer_starts, timer_stops,
              now, instants, term, io_errors, thread, decoded, chan, applied >>

session == << words, punct, numbers, timer, input, word, pos, steps, quit,
              result, status, timer_starts, timer_stops >>

\* ----------------------------------------------------- events (test.rs)
NoDiff == [tag |-> "None", c |-> "", d |-> ""]
Correct(c) == [tag |-> "Correct", c |-> c, d |-> ""]
Error(c, d) == [tag |-> "Error", c |-> c, d |-> d]
Extra(c) == [tag |-> "Extra", c |-> c, d |-> ""]
Unreachable == [tag |-> "unreachable", c |-> "", d |-> ""]

\* Mutant of StepStart: logs the index of the word before the started one.
StepStart_Previous(w) == [kind |-> "Start", word |-> w - 1, diff |-> NoDiff]

StepInput(diff) == [kind |-> "Input", word |-> -1, diff |-> diff]
StepStart(w) == [kind |-> "Start", word |-> w, diff |-> NoDiff]
StepComplete(w) == [kind |-> "Complete", word |-> w, diff |-> NoDiff]

\* Mutant of diff_at: compares against the first target character.
diff_at_FirstTarget(in, target, i) ==
    IF i < Len(in) /\ 0 < Len(target) /\ in[i + 1] = target[1]
        THEN Correct(in[i + 1])
    ELSE IF i < Len(in) /\ 0 < Len(target)
        THEN Error(in[i + 1], target[1])
    ELSE IF i < Len(in)
        THEN Extra(in[i + 1])
    ELSE Unreachable

\* diff_at: compares the i-th (0-based) characters of input and target.
diff_at(in, target, i) ==
    IF i < Len(in) /\ i < Len(target) /\ in[i + 1] = target[i + 1]
        THEN Correct(in[i + 1])
    ELSE IF i < Len(in) /\ i < Len(target)
        THEN Error(in[i + 1], target[i + 1])
    ELSE IF i < Len(in)
        THEN Extra(in[i + 1])
    ELSE Unreachable

\* Mutant of Instant_now: a clock that runs backwards.
Instant_now_Backwards == MaxClock - now

\* Instant::now(), read by Step::input, Step::start and Step::complete.
Instant_now == now

\* The instants of the log after this iteration pushed it up to log.
Stamps(ins, log) == ins \o [i \in 1..(Len(log) - Len(ins)) |-> Instant_now]

\* ------------------------------------------------------- Word (ui.rs)
Cell(c, style) == [c |-> c, style |-> style]

Word_from(s) ==
    [ initial |-> s,
      chars |-> [i \in 1..Len(s) |-> Cell(s[i], "Empty")],
      pos |-> 0 ]

RECURSIVE SumWidth(_)
SumWidth(chars) ==
    IF chars = <<>> THEN 0
    ELSE CharWidth(chars[1].c) + SumWidth(Tail(chars))

\* Word::width: the display width of every buffer entry, typed or not.
Word_width(w) == SumWidth(w.chars)

\* Word::width unwraps each character's width.
Word_width_panics(w) == \E i \in 1..Len(w.chars) : CharWidth(w.chars[i].c) = NoWidth

\* Word::last: the last buffer entry (<<>> is None).
Word_last(w) == IF w.chars = <<>> THEN <<>> ELSE << w.chars[Len(w.chars)].c >>

\* Mutant of Word::push: appends even when an entry exists at pos.
Word_push_AlwaysAppend(w, c, style) ==
    [ w EXCEPT !.chars = Append(w.chars, Cell(c, style)), !.pos = w.pos + 1 ]

\* Word::push
Word_push(w, c, style) ==
    [ w EXCEPT
        !.chars = IF w.pos < Len(w.chars)
                    THEN [w.chars EXCEPT ![w.pos + 1] = Cell(c, style)]
                    ELSE Append(w.chars, Cell(c, style)),
        !.pos = w.pos + 1 ]

\* Mutant of Word::pop: always removes the last buffer entry.
Word_pop_AlwaysRemove(w) ==
    IF w.pos > 0 /\ w.pos - 1 < Len(w.chars)
        THEN [ popped |-> TRUE,
               w |-> [ w EXCEPT !.chars = SubSeq(w.chars, 1, Len(w.chars) - 1),
                                !.pos = w.pos - 1 ] ]
        ELSE [ popped |-> FALSE, w |-> w ]

\* Word::pop: the word after the call and the bool it returns.
Word_pop(w) ==
    IF w.pos > 0 /\ w.pos - 1 < Len(w.chars)
        THEN [ popped |-> TRUE,
               w |-> [ w EXCEPT
                   !.chars = IF w.pos - 1 < Len(w.initial)
                               THEN [w.chars EXCEPT ![w.pos] = Cell(w.initial[w.pos], "Empty")]
                               ELSE SubSeq(w.chars, 1, Len(w.chars) - 1),
                   !.pos = w.pos - 1 ] ]
        ELSE [ popped |-> FALSE, w |-> w ]

\* ------------------------------------------------------- wrap (ui.rs)
Line(start, end, len) == [start |-> start, end |-> end, len |-> len]

\* Mutant of wrap's loop: closes the line when the word exactly fits, too.
RECURSIVE wrap_loop_ClosesOnFit(_, _, _, _, _, _)
wrap_loop_ClosesOnFit(ws, width, i, start, line_width, lines) ==
    IF i = Len(ws)
        THEN Append(lines, Line(start, Len(ws), line_width))
        ELSE LET word_width == Word_width(ws[i + 1])
                 close == i > start /\ line_width + word_width >= width
             IN wrap_loop_ClosesOnFit(ws, width, i + 1,
                          IF close THEN i ELSE start,
                          (IF close THEN 0 ELSE line_width) + word_width + 1,
                          IF close THEN Append(lines, Line(start, i, line_width))
                                   ELSE lines)

RECURSIVE wrap_loop(_, _, _, _, _, _)
wrap_loop(ws, width, i, start, line_width, lines) ==
    IF i = Len(ws)
        THEN Append(lines, Line(start, Len(ws), line_width))
        ELSE LET word_width == Word_width(ws[i + 1])
                 close == i > start /\ line_width + word_width > width
             IN wrap_loop(ws, width, i + 1,
                          IF close THEN i ELSE start,
                          (IF close THEN 0 ELSE line_width) + word_width + 1,
                          IF close THEN Append(lines, Line(start, i, line_width))
                                   ELSE lines)

\* Mutant of wrap: the line that is open when the words end is not pushed.
wrap_NoFinalLine(ws, width) ==
    LET l == wrap_loop(ws, width, 0, 0, 0, <<>>)
    IN  SubSeq(l, 1, Len(l) - 1)

wrap(ws, width) == wrap_loop(ws, width, 0, 0, 0, <<>>)

\* ------------------------------------------------ WordsRender (ui.rs)
\* A renderer call gives the renderer after it and whether it returned.
Ok(r) == [ok |-> TRUE, r |-> r]
Panicked(r) == [ok |-> FALSE, r |-> r]

\* The width of the text box for a terminal of c columns.
BoxWidth(c) == c \div 2

update_lines(r, c) ==
    IF \E i \in 1..Len(r.words) : Word_width_panics(r.words[i])
        THEN Panicked(r)
        ELSE Ok([r EXCEPT !.lines = wrap(r.words, BoxWidth(c))])

WordsRender_new(ws, c) ==
    update_lines([ words |-> [i \in 1..Len(ws) |-> Word_from(ws[i])],
                   lines |-> <<>>, word |-> 0, line |-> 0, pos |-> 0 ], c).r

cursor_forward(r0, c) ==
    LET u == update_lines(r0, c)
        r == u.r
    IN  IF ~u.ok THEN u
        ELSE IF r.word >= Len(r.words) THEN Panicked(r)
        ELSE IF Word_last(r.words[r.word + 1]) = <<>> THEN Panicked(r)
        ELSE IF r.line >= Len(r.lines) THEN Panicked(r)
        ELSE LET width == CharWidth(Word_last(r.words[r.word + 1])[1])
             IN  IF r.pos + width < r.lines[r.line + 1].len
                     THEN Ok([r EXCEPT !.pos = r.pos + width])
                 ELSE IF r.line < Len(r.lines) - 1
                     THEN Ok([r EXCEPT !.line = r.line + 1,
                                       !.pos = Word_width(r.words[r.word + 1])])
                 ELSE Ok(r)

cursor_back(r0, c) ==
    LET u == update_lines(r0, c)
        r == u.r
    IN  IF ~u.ok THEN u
        ELSE IF r.word >= Len(r.words) THEN Panicked(r)
        ELSE IF Word_last(r.words[r.word + 1]) = <<>> THEN Panicked(r)
        ELSE LET width == CharWidth(Word_last(r.words[r.word + 1])[1])
             IN  IF r.pos >= width
                     THEN Ok([r EXCEPT !.pos = r.pos - width])
                 ELSE IF r.line > 0
                     THEN IF r.line - 1 >= Len(r.lines)
                              THEN Panicked(r)
                              ELSE Ok([r EXCEPT !.line = r.line - 1,
                                                !.pos = r.lines[r.line].len])
                 ELSE Ok(r)

\* WordsRender::correct / error / extra: push with the diff's style, then move.
StyleOf(diff) == diff.tag

render_push(r, c, diff, tc) ==
    IF r.word >= Len(r.words) THEN Panicked(r)
    ELSE cursor_forward(
            [r EXCEPT !.words[r.word + 1] = Word_push(r.words[r.word + 1], c, StyleOf(diff))],
            tc)

\* WordsRender::undo
undo(r, tc) ==
    IF r.word >= Len(r.words) THEN Panicked(r)
    ELSE LET p == Word_pop(r.words[r.word + 1])
             r1 == [r EXCEPT !.words[r.word + 1] = p.w]
         IN  IF p.popped THEN cursor_back(r1, tc) ELSE Ok(r1)

\* Mutant of WordsRender::next_word: moves the cursor but stays on the word.
next_word_Stay(r, tc) == cursor_forward(r, tc)

\* WordsRender::next_word
next_word(r, tc) == cursor_forward([r EXCEPT !.word = r.word + 1], tc)

\* WordsRender::render: recomputes the wrap for the current terminal width.
render_frame(r, tc) == update_lines(r, tc)

\* The cells one line of the frame writes: each word's buffer entries in
\* their styles, then a space.
RECURSIVE paint_words(_)
paint_words(ws) ==
    IF ws = <<>> THEN <<>>
    ELSE ws[1].chars \o << Cell(" ", "None") >> \o paint_words(Tail(ws))

NoScreen == [rows |-> <<>>, cursor |-> [col |-> 0, row |-> 0]]

\* What WordsRender::render writes after clear::All: every line from the
\* box's left column, then the cursor (rows counted from the box's first).
paint(r, tc) ==
    LET width == BoxWidth(tc)
    IN  [ rows |-> [ i \in 1..Len(r.lines) |->
                       [ col |-> width - width \div 2,
                         cells |-> paint_words(SubSeq(r.words, r.lines[i].start + 1,
                                                      r.lines[i].end)) ] ],
          cursor |-> [ col |-> width - width \div 2 + r.pos, row |-> r.line ] ]

\* Mutant of Render: the layout is updated but nothing is written.
Render_NoPaint(r) ==
    /\ render' = render_frame(r, cols).r
    /\ screen' = screen

\* render.render()? at the top of the next iteration, on the renderer r the
\* handler left.
Render(r) ==
    /\ render' = render_frame(r, cols).r
    /\ screen' = paint(render', cols)

\* -------------------------------------------------- the terminal (ui.rs)
\* The terminal after WordsRender::new and start: stdout in raw mode, the
\* alternate screen shown, the cursor a steady bar.
Terminal_started == [raw |-> TRUE, alt |-> TRUE, shape |-> "SteadyBar"]

\* WordsRender::end: writes cursor::SteadyBlock and flushes.
end(t) == [t EXCEPT !.shape = "SteadyBlock"]

\* The WordsRender is dropped when run returns: AlternateScreen's drop shows
\* the main screen again and RawTerminal's drop leaves raw mode.
Dropped(t) == [t EXCEPT !.raw = FALSE, !.alt = FALSE]

\* ------------------------------------------------------ Timer (test.rs)
\* Mutant of Timer::running: never reports the timer as running.
Timer_running_Never(t) == FALSE

Timer_running(t) == t # <<>>
Timer_start(t) == << "started" >>

\* Mutant of Timer::stop: gives an elapsed time even if the timer never ran.
Timer_stop_AlwaysSome(t) == << "elapsed" >>

\* Timer::stop takes the start: <<>> when the timer never ran.
Timer_stop(t) == IF t = <<>> THEN <<>> ELSE << "elapsed" >>

\* ---------------------------------------------------- Test::run (test.rs)
\* No library call is in progress.
NoCall == [op |-> "none"]

\* Mutant of recv: the key is read but left in the channel.
recv_Peek(k) ==
    IF chan = <<>>
        THEN UNCHANGED channel
        ELSE /\ k = Head(chan)
             /\ applied' = Append(applied, k)
             /\ chan' = chan

\* recv_timeout gave Ok(k): k is the oldest key in the channel and leaves
\* it.  With no input thread modelled (the channel stays empty) the key is
\* sent and received within the step.
recv(k) ==
    IF chan = <<>>
        THEN UNCHANGED channel
        ELSE /\ k = Head(chan)
             /\ applied' = Append(applied, k)
             /\ chan' = Tail(chan)

\* Mutant of IsQuitKey: the Esc alternative is missing.
IsQuitKey_NoEsc(k) == k.kind = "Ctrl" /\ k.c \in {"c", "d", "q", "z"}

\* Key::Ctrl('c' | 'd' | 'q' | 'z') | Key::Esc
IsQuitKey(k) == (k.kind = "Ctrl" /\ k.c \in {"c", "d", "q", "z"}) \/ k.kind = "Esc"

NumInputs(log) == Cardinality({ i \in 1..Len(log) : log[i].kind = "Input" })

\* The key an exact typist presses next.
ExpectedKey ==
    IF word < Len(words) /\ Len(input) < Len(words[word + 1])
        THEN Key("Char", words[word + 1][Len(input) + 1])
        ELSE Key("Char", " ")

\* The raw result run builds after the loop (start and duration left out).
RawResult(t, log, q) ==
    IF Timer_stop(t) = <<>> THEN <<>>
    ELSE << [ word_count |-> Len(words), punct |-> punct, numbers |-> numbers,
              steps |-> log, quit |-> q ] >>

\* The loop breaks with quit = q: render.end(), timer.stop(), return.
Return(t, log, q) ==
    /\ status' = "done"
    /\ quit' = << q >>
    /\ result' = RawResult(t, log, q)
    /\ timer' = <<>>
    /\ timer_stops' = timer_stops + (IF Timer_running(t) THEN 1 ELSE 0)
    /\ term' = Dropped(end(term))

\* A panic inside the loop: the process dies with the session as it is at
\* that point (input in, word w, pos p, log, timer t, renderer r).
Panic(in, w, p, log, t, starts, r) ==
    /\ status' = "panic"
    /\ input' = in
    /\ word' = w
    /\ pos' = p
    /\ steps' = log
    /\ instants' = Stamps(instants, log)
    /\ timer' = t
    /\ timer_starts' = starts
    /\ render' = r
    /\ UNCHANGED << screen, term, io_errors, now, outside, words, punct, numbers, quit, result, cols, timer_stops >>

\* Mutant of TestOver: ends the session one word early.
TestOver_OneEarly(w) == w + 1 >= Len(words)

\* Test over: the word index w has passed the last word.
TestOver(w) == w = Len(words)

\* Mutant of CompletesWord: compares the lengths only.
CompletesWord_LengthOnly(c) == c = " " /\ Len(input) = Len(words[word + 1])

\* The space that completes the current word.
CompletesWord(c) == c = " " /\ input = words[word + 1]

Init ==
    /\ words \in WordLists
    /\ \E f \in Flags : punct = f[1] /\ numbers = f[2]
    /\ cols \in Cols
    /\ timer = <<>>
    /\ input = <<>>
    /\ word = 0
    /\ pos = 0
    /\ steps = <<>>
    /\ quit = <<>>
    /\ result = <<>>
    /\ status = "running"
    /\ render = WordsRender_new(words, cols)
    /\ screen = paint(render, cols)
    /\ exact = TRUE
    /\ timer_starts = 0
    /\ timer_stops = 0
    /\ now = 0
    /\ instants = <<>>
    /\ term = Terminal_started
    /\ io_errors = 0
    /\ thread = "reading"
    /\ decoded = <<>>
    /\ chan = <<>>
    /\ applied = <<>>
    /\ call = NoCall

\* Key::Char(c)
KeyChar(k) ==
    /\ status = "running"
    /\ k.kind = "Char"
    /\ recv(k)
    /\ CompletesWord(k.c) \/ NumInputs(steps) < MaxInputs
    /\ exact' = (exact /\ k = ExpectedKey)
    /\ LET c == k.c
           started == Timer_running(timer)
           timer1 == IF started THEN timer ELSE Timer_start(timer)
           steps1 == IF started THEN steps ELSE Append(steps, StepStart(0))
           starts1 == IF started THEN timer_starts ELSE timer_starts + 1
       IN  IF CompletesWord(c)
           THEN LET steps2 == Append(steps1, StepComplete(word))
                IN  IF TestOver(word + 1)
                    THEN /\ Return(timer1, steps2, FALSE)
                         /\ steps' = steps2
                         /\ instants' = Stamps(instants, steps2)
                         /\ input' = <<>>
                         /\ pos' = 0
                         /\ word' = word + 1
                         /\ timer_starts' = starts1
                         /\ UNCHANGED << io_errors, now, outside, words, punct, numbers, render, screen, cols >>
                    ELSE LET n == next_word(render, cols)
                         IN  IF ~n.ok
                             THEN Panic(<<>>, word + 1, 0,
                                        Append(steps2, StepStart(word + 1)),
                                        timer1, starts1, n.r)
                             ELSE /\ steps' = Append(steps2, StepStart(word + 1))
                                  /\ instants' = Stamps(instants, steps')
                                  /\ input' = <<>>
                                  /\ pos' = 0
                                  /\ word' = word + 1
                                  /\ timer' = timer1
                                  /\ timer_starts' = starts1
                                  /\ Render(n.r)
                                  /\ UNCHANGED << term, io_errors, now, outside, words, punct, numbers, quit, result,
                                                  status, cols, timer_stops >>
           ELSE LET input1 == Append(input, c)
                    diff == diff_at(input1, words[word + 1], pos)
                    p == render_push(render, c, diff, cols)
                IN  IF diff = Unreachable
                    THEN Panic(input1, word, pos, steps1, timer1, starts1, render)
                    ELSE IF ~p.ok
                    THEN Panic(input1, word, pos, steps1, timer1, starts1, p.r)
                    ELSE /\ input' = input1
                         /\ steps' = Append(steps1, StepInput(diff))
                         /\ instants' = Stamps(instants, steps')
                         /\ pos' = pos + 1
                         /\ timer' = timer1
                         /\ timer_starts' = starts1
                         /\ Render(p.r)
                         /\ UNCHANGED << term, io_errors, now, outside, words, punct, numbers, word, quit, result,
                                         status, cols, timer_stops >>

\* Mutant of BackspaceEffective: the arm without its guard.
BackspaceEffective_NoGuard == TRUE

\* The guard of the arm Key::Backspace if self.pos > 0
BackspaceEffective == pos > 0

\* Key::Backspace if self.pos > 0
KeyBackspace(k) ==
    /\ status = "running"
    /\ k = Backspace
    /\ recv(k)
    /\ BackspaceEffective
    /\ exact' = FALSE
    /\ LET u == undo(render, cols)
       IN  IF ~u.ok
           THEN Panic(SubSeq(input, 1, Len(input) - 1), word, pos - 1, steps,
                      timer, timer_starts, u.r)
           ELSE /\ input' = SubSeq(input, 1, Len(input) - 1)
                /\ pos' = pos - 1
                /\ Render(u.r)
                /\ UNCHANGED << term, io_errors, now, outside, words, punct, numbers, timer, word, steps, quit,
                                result, status, cols, timer_starts, timer_stops,
                                instants >>

\* Key::Ctrl('c' | 'd' | 'q' | 'z') | Key::Esc => break true
KeyQuit(k) ==
    /\ status = "running"
    /\ IsQuitKey(k)
    /\ recv(k)
    /\ exact' = FALSE
    /\ Return(timer, steps, TRUE)
    /\ UNCHANGED << io_errors, now, outside, words, punct, numbers, input, word, pos, steps,
                    render, screen, cols, timer_starts, instants >>

\* _ => (): every key no earlier arm takes, a Backspace at pos 0 included.
KeyOther(k) ==
    /\ status = "running"
    /\ ~IsQuitKey(k)
    /\ recv(k)
    /\ k.kind # "Char"
    /\ ~(k = Backspace /\ BackspaceEffective)
    /\ exact' = FALSE
    /\ Render(render)
    /\ UNCHANGED << term, io_errors, now, outside, words, punct, numbers, timer, input, word, pos, steps, quit,
                    result, status, cols, timer_starts, timer_stops, instants >>

\* recv_timeout gave no key: continue, which renders the next frame.
Timeout ==
    /\ status = "running"
    /\ Render(render)
    /\ UNCHANGED << channel, term, io_errors, now, outside, words, punct, numbers, timer, input, word, pos, steps, quit,
                    result, status, cols, exact, timer_starts, timer_stops,
                    instants >>

\* The terminal is resized between two frames.
Resize ==
    /\ status = "running"
    /\ \E c \in Cols \ {cols} : cols' = c
    /\ UNCHANGED << channel, term, io_errors, now, outside, words, punct, numbers, timer, input, word, pos, steps, quit,
                    result, status, render, screen, exact, timer_starts, timer_stops,
                    instants >>

\* The monotonic clock advances between two iterations of the loop.
Tick ==
    /\ status = "running"
    /\ now < MaxClock
    /\ now' = now + 1
    /\ UNCHANGED << channel, term, io_errors, outside, words, punct, numbers, timer, input, word, pos,
                    steps, quit, result, status, render, screen, cols, exact,
                    timer_starts, timer_stops, instants >>

\* One iteration of the loop that takes key k: the match of Test::run.
TakeKey(k) == KeyQuit(k) \/ KeyChar(k) \/ KeyBackspace(k) \/ KeyOther(k)

NextFixed ==
    \/ \E k \in Keys : KeyQuit(k)
    \/ \E k \in Keys : KeyChar(k)
    \/ \E k \in Keys : KeyBackspace(k)
    \/ \E k \in Keys : KeyOther(k)
    \/ Timeout

Next ==
    \/ NextFixed
    \/ Resize

\* The session with live terminal resizing.
Spec == Init /\ [][Next]_vars

\* The session at a fixed terminal width.
SpecFixed == Init /\ [][NextFixed]_vars

\* Sessions of one narrow word and of a narrow and a wide word, no flags
\* varied: the clock's readings multiply the states of every session.
InitClock ==
    /\ Init
    /\ words \in { << <<"a">> >>, << <<"a">>, <<"a", "W">> >> }
    /\ punct
    /\ cols = 9

\* Mutant of ReturnErr: the error is swallowed and the loop goes on.
ReturnErr_Swallowed(t) ==
    /\ status' = "running"
    /\ term' = t

\* The ? on an Err: run returns the error at once; its WordsRender is
\* dropped with the terminal as it is (t).
ReturnErr(t) ==
    /\ status' = "error"
    /\ term' = Dropped(t)

\* render.render()? at the top of the loop gives Err: the terminal-size
\* query, a write or the flush failed.
RenderFails ==
    /\ status = "running"
    /\ io_errors' = io_errors + 1
    /\ ReturnErr(term)
    /\ UNCHANGED << channel, now, outside, words, punct, numbers, timer, input, word, pos, steps,
                    quit, result, render, screen, cols, exact, timer_starts,
                    timer_stops, instants >>

\* Key::Char(c) whose renderer call (next_word, correct, error or extra)
\* gives Err: the terminal-size query of update_lines in cursor_forward
\* failed, after the word pointer moved or the character was pushed.
KeyCharFails(k) ==
    /\ status = "running"
    /\ k.kind = "Char"
    /\ recv(k)
    /\ CompletesWord(k.c) \/ NumInputs(steps) < MaxInputs
    /\ ~(CompletesWord(k.c) /\ TestOver(word + 1))
    /\ render.word < Len(render.words)
    /\ exact' = (exact /\ k = ExpectedKey)
    /\ io_errors' = io_errors + 1
    /\ ReturnErr(term)
    /\ LET c == k.c
           started == Timer_running(timer)
           steps1 == IF started THEN steps ELSE Append(steps, StepStart(0))
       IN  /\ timer' = (IF started THEN timer ELSE Timer_start(timer))
           /\ timer_starts' = (IF started THEN timer_starts ELSE timer_starts + 1)
           /\ IF CompletesWord(c)
              THEN /\ steps' = Append(Append(steps1, StepComplete(word)),
                                      StepStart(word + 1))
                   /\ input' = <<>>
                   /\ pos' = 0
                   /\ word' = word + 1
                   /\ render' = [render EXCEPT !.word = render.word + 1]
              ELSE LET input1 == Append(input, c)
                       diff == diff_at(input1, words[word + 1], pos)
                   IN  /\ diff # Unreachable
                       /\ steps' = steps1
                       /\ input' = input1
                       /\ render' = [render EXCEPT !.words[render.word + 1] =
                                         Word_push(render.words[render.word + 1],
                                                   c, StyleOf(diff))]
                       /\ UNCHANGED << word, pos >>
           /\ instants' = Stamps(instants, steps')
    /\ UNCHANGED << screen, now, outside, words, punct, numbers, quit, result, cols, timer_stops >>

\* Key::Backspace if self.pos > 0 whose render.undo() gives Err: the
\* terminal-size query of update_lines in cursor_back failed, after the pop.
KeyBackspaceFails(k) ==
    /\ status = "running"
    /\ k = Backspace
    /\ recv(k)
    /\ BackspaceEffective
    /\ render.word < Len(render.words)
    /\ Word_pop(render.words[render.word + 1]).popped
    /\ exact' = FALSE
    /\ io_errors' = io_errors + 1
    /\ ReturnErr(term)
    /\ input' = SubSeq(input, 1, Len(input) - 1)
    /\ pos' = pos - 1
    /\ render' = [render EXCEPT !.words[render.word + 1] =
                      Word_pop(render.words[render.word + 1]).w]
    /\ UNCHANGED << screen, now, outside, words, punct, numbers, timer, word, steps, quit, result,
                    cols, timer_starts, timer_stops, instants >>

\* The loop breaks on key k (a quit key, or the space that completes the
\* last word) and render.end()? gives Err: the SteadyBlock write or the
\* flush failed, so the shape may or may not have reached the terminal.
EndFails(k) ==
    /\ status = "running"
    /\ recv(k)
    /\ io_errors' = io_errors + 1
    /\ \E t \in {term, end(term)} : ReturnErr(t)
    /\ IF IsQuitKey(k)
       THEN /\ quit' = << TRUE >>
            /\ exact' = FALSE
            /\ UNCHANGED << timer, input, word, pos, steps, timer_starts, instants >>
       ELSE /\ k.kind = "Char"
            /\ CompletesWord(k.c)
            /\ TestOver(word + 1)
            /\ quit' = << FALSE >>
            /\ exact' = (exact /\ k = ExpectedKey)
            /\ timer' = (IF Timer_running(timer) THEN timer ELSE Timer_start(timer))
            /\ timer_starts' = (IF Timer_running(timer) THEN timer_starts
                                                         ELSE timer_starts + 1)
            /\ steps' = Append(IF Timer_running(timer) THEN steps
                                   ELSE Append(steps, StepStart(0)),
                               StepComplete(word))
            /\ instants' = Stamps(instants, steps')
            /\ input' = <<>>
            /\ pos' = 0
            /\ word' = word + 1
    /\ UNCHANGED << now, outside, words, punct, numbers, result, render, screen, cols, timer_stops >>

NextIO ==
    \/ NextFixed
    \/ RenderFails
    \/ \E k \in Keys : KeyCharFails(k)
    \/ \E k \in Keys : KeyBackspaceFails(k)
    \/ \E k \in Keys : EndFails(k)

\* The session at a fixed terminal width on a terminal whose operations can
\* fail; Spec, SpecFixed and SpecClock are sessions in which none fails.
SpecIO == Init /\ [][NextIO]_vars

\* Words of display width 0, 1, 2 and 3, and every sequence of one to
\* MaxWrapWords of them.
WrapWords == { <<>>, <<"a">>, <<"W">>, <<"a", "W">> }
WrapWordLists == UNION { [1..n -> WrapWords] : n \in 1..MaxWrapWords }

\* Terminals whose text box is 0 to MaxWrapWidth columns wide.
WrapCols == { 2 * w : w \in 0..MaxWrapWidth }

\* WordsRender::new before its update_lines: the words, no line yet.
InitWrap ==
    /\ words \in WrapWordLists
    /\ cols \in WrapCols
    /\ render = [ words |-> [i \in 1..Len(words) |-> Word_from(words[i])],
                  lines |-> <<>>, word |-> 0, line |-> 0, pos |-> 0 ]
    /\ screen = NoScreen
    /\ status = "new"
    /\ punct = FALSE
    /\ numbers = FALSE
    /\ timer = <<>>
    /\ input = <<>>
    /\ word = 0
    /\ pos = 0
    /\ steps = <<>>
    /\ quit = <<>>
    /\ result = <<>>
    /\ exact = TRUE
    /\ timer_starts = 0
    /\ timer_stops = 0
    /\ now = 0
    /\ instants = <<>>
    /\ term = Terminal_started
    /\ io_errors = 0
    /\ thread = "reading"
    /\ decoded = <<>>
    /\ chan = <<>>
    /\ applied = <<>>
    /\ call = NoCall

\* render.update_lines() of WordsRender::new: the first wrap.
NewUpdateLines ==
    /\ status = "new"
    /\ render' = update_lines(render, cols).r
    /\ status' = "running"
    /\ UNCHANGED << screen, channel, term, io_errors, now, outside, words, punct, numbers, timer, input, word, pos, steps,
                    quit, result, cols, exact, timer_starts, timer_stops,
                    instants >>

\* wrap applied to every bounded word sequence and width.
SpecWrap == InitWrap /\ [][NewUpdateLines]_vars

NextClock ==
    \/ NextFixed
    \/ Tick

\* The session at a fixed terminal width with the clock advancing; Spec and
\* SpecFixed leave the clock, which only stamps the events, at its start.
SpecClock == InitClock /\ [][NextClock]_vars


\* ------------------------------------------------------- integers (rand.rs)
\* Wrapping arithmetic on unsigned integers of the given number of bits.
wrapping_add(a, b, bits) == (a + b) % (2 ^ bits)
wrapping_sub(a, b, bits) == (a - b + 2 ^ bits) % (2 ^ bits)
wrapping_mul(a, b, bits) == (a * b) % (2 ^ bits)
wrapping_neg(a, bits) == (2 ^ bits - a) % (2 ^ bits)

\* std::$t::MIN is 0 for the unsigned types drawn; std::$t::MAX.
MaxOf(bits) == 2 ^ bits - 1

\* Mutant of mul_high: gives the low half of the product.
mul_high_LowHalf(a, b, bits) == (a * b) % (2 ^ bits)

\* mul_high_u32 / mul_high_u64: the high half of the double-width product.
mul_high(a, b, bits) == (a * b) \div (2 ^ bits)

\* Mutant of gen_mod_threshold: no raw value is ever rejected.
gen_mod_threshold_Zero(n, bits) == 0

\* let t = n.wrapping_neg() % n
gen_mod_threshold(n, bits) == wrapping_neg(n, bits) % n

\* gen_mod_u32 / gen_mod_u64: the raw value r is rejected and drawn again.
gen_mod_rejects(r, n, bits) ==
    LET lo == wrapping_mul(r, n, bits)
    IN  lo < n /\ lo < gen_mod_threshold(n, bits)

\* std::ops::Bound of a range's start or end.
Unbounded == [kind |-> "Unbounded", x |-> 0]
Included(x) == [kind |-> "Included", x |-> x]
Excluded(x) == [kind |-> "Excluded", x |-> x]

\* The value a call has not produced; also what panic_empty_range "gives".
NoValue == -1

\* Mutant of low_of: an excluded start is resolved with a wrapping add.
low_of_WrappingAdd(b, bits) ==
    CASE b.kind = "Unbounded" -> 0
      [] b.kind = "Included" -> b.x
      [] b.kind = "Excluded" -> wrapping_add(b.x, 1, bits)

\* let low = match range.start_bound(): NoValue is panic_empty_range.
low_of(b, bits) ==
    CASE b.kind = "Unbounded" -> 0
      [] b.kind = "Included" -> b.x
      [] b.kind = "Excluded" -> IF b.x + 1 > MaxOf(bits) THEN NoValue ELSE b.x + 1

\* Mutant of high_of: an excluded end is taken as included.
high_of_ExcludedAsIncluded(b, bits) ==
    CASE b.kind = "Unbounded" -> MaxOf(bits)
      [] b.kind = "Included" -> b.x
      [] b.kind = "Excluded" -> b.x

\* let high = match range.end_bound(): NoValue is panic_empty_range.
high_of(b, bits) ==
    CASE b.kind = "Unbounded" -> MaxOf(bits)
      [] b.kind = "Included" -> b.x
      [] b.kind = "Excluded" -> IF b.x - 1 < 0 THEN NoValue ELSE b.x - 1

\* The instances of rng_integer!: the type's bits and its generator's bits.
IntTypes ==
    { [name |-> "u8", bits |-> U8Bits, gen |-> GenU32Bits],
      [name |-> "u64", bits |-> U64Bits, gen |-> U64Bits],
      [name |-> "usize", bits |-> U64Bits, gen |-> U64Bits] }

RangeBounds(bits) ==
    {Unbounded} \cup { Included(x) : x \in 0..MaxOf(bits) }
                \cup { Excluded(x) : x \in 0..MaxOf(bits) }

\* A call rng.$t(range) at its entry.
IntCall(ty, start, end_bound) ==
    [ op |-> "int", ty |-> ty, start |-> start, end |-> end_bound, pc |-> "entry",
      low |-> NoValue, high |-> NoValue, n |-> 0, r |-> NoValue, draws |-> 0,
      result |-> NoValue ]

\* The session's variables while no session exists.
NoRender == [words |-> <<>>, lines |-> <<>>, word |-> 0, line |-> 0, pos |-> 0]

Terminal_cooked == [raw |-> FALSE, alt |-> FALSE, shape |-> "Original"]

NoSession ==
    /\ words = <<>>
    /\ punct = FALSE
    /\ numbers = FALSE
    /\ timer = <<>>
    /\ input = <<>>
    /\ word = 0
    /\ pos = 0
    /\ steps = <<>>
    /\ quit = <<>>
    /\ result = <<>>
    /\ status = "library"
    /\ render = NoRender
    /\ screen = NoScreen
    /\ cols = 0
    /\ exact = TRUE
    /\ timer_starts = 0
    /\ timer_stops = 0
    /\ now = 0
    /\ instants = <<>>
    /\ term = Terminal_cooked
    /\ io_errors = 0
    /\ thread = "unspawned"
    /\ decoded = <<>>
    /\ chan = <<>>
    /\ applied = <<>>

InitDraw ==
    /\ NoSession
    /\ \E ty \in IntTypes :
        \E start \in RangeBounds(ty.bits) :
            \E end_bound \in RangeBounds(ty.bits) :
                call = IntCall(ty, start, end_bound)

\* rng.$t(range) resolves its bounds: panics on an empty range, else goes on
\* to the raw draw (the full range) or to the bounded draw of len values.
IntEnter ==
    /\ call.op = "int"
    /\ call.pc = "entry"
    /\ LET low == low_of(call.start, call.ty.bits)
           high == high_of(call.end, call.ty.bits)
       IN  IF low = NoValue \/ high = NoValue \/ low > high
           THEN call' = [call EXCEPT !.pc = "panic"]
           ELSE IF low = 0 /\ high = MaxOf(call.ty.bits)
           THEN call' = [call EXCEPT !.pc = "gen", !.low = low, !.high = high]
           ELSE call' = [call EXCEPT
                    !.pc = "mod", !.low = low, !.high = high,
                    !.n = wrapping_add(wrapping_sub(high, low, call.ty.bits), 1,
                                       call.ty.bits)]
    /\ UNCHANGED program

\* self.$gen() as $t: the raw value, cut to the type's width.
IntGen ==
    /\ call.op = "int"
    /\ call.pc = "gen"
    /\ \E raw \in 0..MaxOf(call.ty.gen) :
           call' = [call EXCEPT !.pc = "done", !.r = raw, !.draws = @ + 1,
                                !.result = raw % (2 ^ call.ty.bits)]
    /\ UNCHANGED program

\* One raw draw of self.$mod(len): rejected (the loop draws again) or
\* accepted, and then low.wrapping_add(hi as $t) is returned.
IntMod ==
    /\ call.op = "int"
    /\ call.pc = "mod"
    /\ call.draws < MaxDraws
    /\ \E raw \in 0..MaxOf(call.ty.gen) :
           IF gen_mod_rejects(raw, call.n, call.ty.gen)
           THEN call' = [call EXCEPT !.r = raw, !.draws = @ + 1]
           ELSE call' = [call EXCEPT
                    !.pc = "done", !.r = raw, !.draws = @ + 1,
                    !.result = wrapping_add(call.low,
                                   mul_high(raw, call.n, call.ty.gen)
                                       % (2 ^ call.ty.bits),
                                   call.ty.bits)]
    /\ UNCHANGED program

NextDraw ==
    \/ IntEnter
    \/ IntGen
    \/ IntMod

\* The bounded integer draws of every range, type and raw value.
SpecDraw == InitDraw /\ [][NextDraw]_vars


\* ------------------------------------------- choose_multiple (rand.rs)
\* The values rng.usize(..end) can return: the resolved range of the draw.
usize_values(end_bound) ==
    low_of(Unbounded, U64Bits)..high_of(Excluded(end_bound), U64Bits)

\* Mutant of reservoir_put: a draw past the buffer still overwrites a slot.
reservoir_put_Always(reservoir, k, elem) ==
    IF reservoir = <<>> THEN reservoir
    ELSE [reservoir EXCEPT ![(k % Len(reservoir)) + 1] = elem]

\* if let Some(slot) = reservoir.get_mut(k) { *slot = elem }
reservoir_put(reservoir, k, elem) ==
    IF k < Len(reservoir) THEN [reservoir EXCEPT ![k + 1] = elem]
    ELSE reservoir

\* Mutant of reservoir_fill: nothing is taken from the iterator.
reservoir_fill_Nothing(n, amount) == <<>>

\* reservoir.extend(iter.by_ref().take(amount)), the iterator giving the
\* positions 1..n.
reservoir_fill(n, amount) ==
    [ j \in 1..(IF amount < n THEN amount ELSE n) |-> j ]

\* The loop of choose_multiple from its i-th iteration on, with the usize
\* draws it will make, on the n items at positions 1..n.
RECURSIVE choose_loop(_, _, _, _, _)
choose_loop(reservoir, n, amount, i, draws) ==
    IF amount + i >= n \/ draws = <<>> THEN reservoir
    ELSE choose_loop(reservoir_put(reservoir, Head(draws), amount + i + 1),
                     n, amount, i + 1, Tail(draws))

\* rng.choose_multiple(iter, amount) for the draws given.
choose_multiple(n, amount, draws) ==
    LET reservoir == reservoir_fill(n, amount)
    IN  IF Len(reservoir) = amount
        THEN choose_loop(reservoir, n, amount, 0, draws)
        ELSE reservoir

\* The i-th word of the corpus file.
CorpusWord(i) == [ j \in 1..((i % 3) + 1) |-> "a" ]

Corpus(m) == [ i \in 1..m |-> CorpusWord(i) ]

\* The call of WordSet::choose(amount) at its entry.
ChooseCall(corpus, amount) ==
    [ op |-> "choose", corpus |-> corpus, amount |-> amount, pc |-> "entry",
      reservoir |-> <<>>, i |-> 0, drawn |-> <<>>, chosen |-> <<>> ]

InitChoose ==
    /\ NoSession
    /\ \E m \in 0..MaxCorpus :
        \E amount \in 0..MaxCorpus :
            call = ChooseCall(Corpus(m), amount)

\* reservoir.extend(iter.by_ref().take(amount)) and the test of its length.
ChooseFill ==
    /\ call.op = "choose"
    /\ call.pc = "entry"
    /\ LET reservoir == reservoir_fill(Len(call.corpus), call.amount)
       IN  call' = [call EXCEPT
               !.reservoir = reservoir,
               !.pc = IF Len(reservoir) = call.amount THEN "loop" ELSE "short"]
    /\ UNCHANGED program

\* One iteration of for (i, elem) in iter.enumerate().
ChooseDraw ==
    /\ call.op = "choose"
    /\ call.pc = "loop"
    /\ call.amount + call.i < Len(call.corpus)
    /\ \E k \in usize_values(call.i + 1 + call.amount) :
           call' = [call EXCEPT
               !.reservoir = reservoir_put(@, k, call.amount + call.i + 1),
               !.i = @ + 1,
               !.drawn = Append(@, k)]
    /\ UNCHANGED program

\* The iterator is exhausted, or the buffer was not filled: the buffer is
\* returned and choose clones the words it refers to.
ChooseReturn ==
    /\ call.op = "choose"
    /\ \/ call.pc = "short"
       \/ call.pc = "loop" /\ call.amount + call.i >= Len(call.corpus)
    /\ call' = [call EXCEPT
           !.pc = "done",
           !.chosen = [ j \in 1..Len(call.reservoir) |->
                            call.corpus[call.reservoir[j]] ]]
    /\ UNCHANGED program

NextChoose ==
    \/ ChooseFill
    \/ ChooseDraw
    \/ ChooseReturn

\* WordSet::choose over every corpus size, amount and draws.
SpecChoose == InitChoose /\ [][NextChoose]_vars


\* ----------------------------------------------- choose_with (words.rs)
\* Every sequence of usize draws choose_multiple can make on n items.
ChooseDraws(n, amount) ==
    IF n <= amount THEN { <<>> }
    ELSE { d \in [1..(n - amount) -> 0..(n - 1)] :
             \A i \in 1..(n - amount) : d[i] \in usize_values(i + amount) }

\* WordSet::choose(amount) for the draws given.
choose(corpus, amount, draws) ==
    LET reservoir == choose_multiple(Len(corpus), amount, draws)
    IN  [ j \in 1..Len(reservoir) |-> corpus[reservoir[j]] ]

\* Mutant of numbers_amount: one number for each requested word.
numbers_amount_All(amount) == amount

\* amount / 16
numbers_amount(amount) == amount \div 16

\* The bytes rand::u8(..) is taken to return, and the word counts asked for.
U8Samples == {0, 9, 10, 99, 100, 255}
Amounts == {0, 2, 15, 16, 32, 48}

DigitChars == << "0", "1", "2", "3", "4", "5", "6", "7", "8", "9" >>

\* u8::to_string
RECURSIVE to_string(_)
to_string(v) ==
    IF v < 10 THEN << DigitChars[v + 1] >>
    ELSE Append(to_string(v \div 10), DigitChars[(v % 10) + 1])

\* choose_with(amount, punct, numbers) after let mut chosen = self.choose(amount).
NumbersCall(chosen, amount, flag) ==
    [ op |-> "choose_with", amount |-> amount, numbers |-> flag,
      original |-> chosen, chosen |-> chosen, pc |-> "chosen",
      indices |-> <<>>, at |-> 0 ]

InitNumbers ==
    /\ NoSession
    /\ \E m \in 0..MaxCorpus :
        \E amount \in Amounts :
            \E flag \in BOOLEAN :
                \E d \in ChooseDraws(m, amount) :
                    call = NumbersCall(choose(Corpus(m), amount, d), amount, flag)

\* if numbers { let indices = rand::choose_multiple(0..chosen.len(), amount / 16)
\* (positions counted from 1 here); without numbers the block is skipped.
NumbersIndices ==
    /\ call.op = "choose_with"
    /\ call.pc = "chosen"
    /\ IF call.numbers
       THEN \E d \in ChooseDraws(Len(call.chosen), numbers_amount(call.amount)) :
                call' = [call EXCEPT
                    !.pc = "replace",
                    !.indices = choose_multiple(Len(call.chosen),
                                    numbers_amount(call.amount), d)]
       ELSE call' = [call EXCEPT !.pc = "done"]
    /\ UNCHANGED program

\* for i in indices { chosen[i] = rand::u8(..).to_string() }: one iteration;
\* an index outside chosen panics.
NumbersReplace ==
    /\ call.op = "choose_with"
    /\ call.pc = "replace"
    /\ call.at < Len(call.indices)
    /\ LET i == call.indices[call.at + 1]
       IN  IF i \in 1..Len(call.chosen)
           THEN \E v \in U8Samples :
                    call' = [call EXCEPT !.chosen[i] = to_string(v), !.at = @ + 1]
           ELSE call' = [call EXCEPT !.pc = "panic"]
    /\ UNCHANGED program

\* The loop over the indices is over.
NumbersReturn ==
    /\ call.op = "choose_with"
    /\ call.pc = "replace"
    /\ call.at = Len(call.indices)
    /\ call' = [call EXCEPT !.pc = "done"]
    /\ UNCHANGED program

NextNumbers ==
    \/ NumbersIndices
    \/ NumbersReplace
    \/ NumbersReturn

\* The numbers pass of choose_with over every chosen sequence and amount.
SpecNumbers == InitNumbers /\ [][NextNumbers]_vars


\* ------------------------------------------------- punctuate (words.rs)
TERMINAL == << ".", "?", "!" >>
PAUSE == << ",", ";", ":" >>
SEP == << <<"-">>, <<"/">>, <<".", ".", ".">> >>
DELIM == << <<"\"", "\"">>, <<"'", "'">>, <<"(", ")">>, <<"[", "]">>,
            <<"{", "}">>, <<"<", ">">> >>

\* The bytes of a char in UTF-8.
len_utf8(c) == IF c \in {"é", "É"} THEN 2 ELSE 1

\* u8::make_ascii_uppercase on the char of a one-byte str.
make_ascii_uppercase(c) == IF c = "a" THEN "A" ELSE c

\* Mutant of uppercase_first: applied whatever the flag.
uppercase_first_Never(w) == w

\* if let Some(f) = word.get_mut(..1) { f.make_ascii_uppercase() }: the
\* slice exists when byte 1 is a char boundary inside the word.
uppercase_first(w) ==
    IF w # <<>> /\ len_utf8(w[1]) = 1
    THEN [w EXCEPT ![1] = make_ascii_uppercase(w[1])]
    ELSE w

\* The values rand::f64() is taken to return, in hundredths.
F64Samples == {0, 5, 7, 10, 15, 20, 25, 30, 60}

\* The branch of punctuate the draw r selects.
punct_branch(r) ==
    IF r < 30
    THEN IF r > 20 THEN "terminal"
         ELSE IF r > 10 THEN "pause"
         ELSE IF r > 5 THEN "delim"
         ELSE "sep"
    ELSE "none"

\* The word after its punctuation, k being the usize draw of the branch.
punct_word(w, branch, k) ==
    CASE branch = "terminal" -> Append(w, TERMINAL[k + 1])
      [] branch = "pause" -> Append(w, PAUSE[k + 1])
      [] branch = "delim" -> << DELIM[k + 1][1] >> \o w \o << DELIM[k + 1][2] >>
      [] branch = "sep" -> SEP[k + 1]
      [] OTHER -> w

\* The usize draws of a branch.
punct_draws(branch) ==
    CASE branch = "terminal" -> usize_values(Len(TERMINAL))
      [] branch = "pause" -> usize_values(Len(PAUSE))
      [] branch = "delim" -> usize_values(Len(DELIM))
      [] branch = "sep" -> usize_values(Len(SEP))
      [] OTHER -> {0}

PunctWordLists ==
    { << <<"a", "a">> >>,
      << <<"a">>, <<"a", "a">> >>,
      << <<"a">>, <<"é", "a">> >>,
      << <<"a">>, <<>> >>,
      << <<"a">>, <<"7">>, <<"a">> >> }

\* punctuate(&mut chosen) at its entry; cased keeps each word as it was
\* right before its own draw, flags the flag each word found.
PunctCall(ws) ==
    [ op |-> "punctuate", original |-> ws, words |-> ws, pc |-> "loop",
      i |-> 0, last_terminal |-> FALSE, cased |-> <<>>, flags |-> <<>>,
      branches |-> <<>> ]

InitPunct ==
    /\ NoSession
    /\ \E ws \in PunctWordLists : call = PunctCall(ws)

\* One iteration of for word in words.
PunctuateWord ==
    /\ call.op = "punctuate"
    /\ call.pc = "loop"
    /\ call.i < Len(call.words)
    /\ LET j == call.i + 1
           cased == IF call.last_terminal THEN uppercase_first(call.words[j])
                    ELSE call.words[j]
       IN  \E r \in F64Samples :
               \E k \in punct_draws(punct_branch(r)) :
                   call' = [call EXCEPT
                       !.words[j] = punct_word(cased, punct_branch(r), k),
                       !.i = j,
                       !.last_terminal = (punct_branch(r) = "terminal"),
                       !.cased = Append(@, cased),
                       !.flags = Append(@, call.last_terminal),
                       !.branches = Append(@, punct_branch(r))]
    /\ UNCHANGED program

PunctuateReturn ==
    /\ call.op = "punctuate"
    /\ call.pc = "loop"
    /\ call.i = Len(call.words)
    /\ call' = [call EXCEPT !.pc = "done"]
    /\ UNCHANGED program

NextPunct ==
    \/ PunctuateWord
    \/ PunctuateReturn

\* The punctuation pass over every word list and draws.
SpecPunct == InitPunct /\ [][NextPunct]_vars


\* ------------------------------------- start-up and input thread (test.rs)
\* The corpora and word counts main can be started with, and the keys the
\* user presses.
StartCorpora == { <<>>, << <<"a">> >>, << <<"a">>, <<"a", "W">> >> }
StartCounts == 0..2
ThreadKeys == { Key("Char", "a"), Key("Char", " "), Backspace, Key("Esc", ""),
                Key("Left", "") }

MainCall(corpus, word_count) ==
    [ op |-> "main", corpus |-> corpus, word_count |-> word_count ]

\* main has parsed its arguments and loaded the word set.
InitMain ==
    /\ words = <<>>
    /\ punct = FALSE
    /\ numbers = FALSE
    /\ cols = 9
    /\ timer = <<>>
    /\ input = <<>>
    /\ word = 0
    /\ pos = 0
    /\ steps = <<>>
    /\ quit = <<>>
    /\ result = <<>>
    /\ status = "main"
    /\ render = NoRender
    /\ screen = NoScreen
    /\ exact = TRUE
    /\ timer_starts = 0
    /\ timer_stops = 0
    /\ now = 0
    /\ instants = <<>>
    /\ term = Terminal_cooked
    /\ io_errors = 0
    /\ thread = "unspawned"
    /\ decoded = <<>>
    /\ chan = <<>>
    /\ applied = <<>>
    /\ \E corpus \in StartCorpora :
        \E word_count \in StartCounts : call = MainCall(corpus, word_count)

\* if args.word_count == 0 { process::exit(1) }, else run_test samples the
\* words (punct and numbers are off).
MainRunTest ==
    /\ status = "main"
    /\ IF call.word_count = 0
       THEN status' = "exit" /\ words' = words
       ELSE /\ status' = "chosen"
            /\ \E d \in ChooseDraws(Len(call.corpus), call.word_count) :
                   words' = choose(call.corpus, call.word_count, d)
    /\ UNCHANGED << channel, term, io_errors, now, outside, punct, numbers,
                    timer, input, word, pos, steps, quit, result, render, screen, cols,
                    exact, timer_starts, timer_stops, instants >>

\* Mutant of Test_new_asserts: the assertion is left out.
Test_new_asserts_Nothing(ws) == TRUE

\* assert!(!words.is_empty())
Test_new_asserts(ws) == ws # <<>>

\* Test::new
Test_new ==
    /\ status = "chosen"
    /\ status' = IF Test_new_asserts(words) THEN "created" ELSE "panic"
    /\ UNCHANGED << channel, term, io_errors, now, outside, words, punct,
                    numbers, timer, input, word, pos, steps, quit, result,
                    render, screen, cols, exact, timer_starts, timer_stops, instants >>

\* let (send, recv) = mpsc::channel(); thread::spawn(..)
SpawnInput ==
    /\ status = "created"
    /\ status' = "spawned"
    /\ thread' = "reading"
    /\ UNCHANGED << channel, term, io_errors, now, decoded, call, words, punct,
                    numbers, timer, input, word, pos, steps, quit, result,
                    render, screen, cols, exact, timer_starts, timer_stops, instants >>

\* WordsRender::new(..)?; render.start()?
RenderStart ==
    /\ status = "spawned"
    /\ status' = "running"
    /\ render' = WordsRender_new(words, cols)
    /\ screen' = paint(render', cols)
    /\ term' = Terminal_started
    /\ UNCHANGED << channel, io_errors, now, outside, words, punct, numbers,
                    timer, input, word, pos, steps, quit, result, cols, exact,
                    timer_starts, timer_stops, instants >>

\* The receiver is gone once run has returned or unwound.
ReceiverDropped == status \in {"done", "error", "panic", "exit"}

\* One iteration of the input thread: it decodes the next key and sends it;
\* a send to a dropped receiver ends the thread.
ThreadSend(k) ==
    /\ thread = "reading"
    /\ Len(decoded) < MaxKeys
    /\ decoded' = Append(decoded, k)
    /\ IF ReceiverDropped
       THEN thread' = "exited" /\ chan' = chan
       ELSE thread' = thread /\ chan' = Append(chan, k)
    /\ UNCHANGED << applied, call, term, io_errors, now, words, punct, numbers,
                    timer, input, word, pos, steps, quit, result, status,
                    render, screen, cols, exact, timer_starts, timer_stops, instants >>

\* recv_timeout gives the oldest key in the channel, which the loop handles.
RecvKey == chan # <<>> /\ TakeKey(Head(chan))

\* recv_timeout finds the channel empty for 200 ms.
PollTimeout == chan = <<>> /\ Timeout

NextThread ==
    \/ MainRunTest
    \/ Test_new
    \/ SpawnInput
    \/ RenderStart
    \/ \E k \in ThreadKeys : ThreadSend(k)
    \/ RecvKey
    \/ PollTimeout
    \/ Resize

\* The program from main's checks on, with the input thread and resizes.
SpecThread == InitMain /\ [][NextThread]_vars


\* ------------------------------------------ the loop's exits (test.rs)
\* stdin is at its end: keys() yields nothing more, find_map gives None and
\* the unwrap panics in the input thread, whose sender is dropped.
ThreadEnds ==
    /\ thread = "reading"
    /\ thread' = "exited"
    /\ UNCHANGED << channel, decoded, call, screen, term, io_errors, now, words,
                    punct, numbers, timer, input, word, pos, steps, quit,
                    result, status, render, cols, exact, timer_starts,
                    timer_stops, instants >>

\* The keys pressed in the sessions that SpecLoop follows.
LoopKeys == ThreadKeys \cup { Key("Char", "\n") }

InitLoop ==
    /\ Init
    /\ words \in { << <<"a">> >>, << <<"a">>, <<"a">> >> }
    /\ punct
    /\ cols = 9

\* render.end()? fails on the key that breaks the loop.
RecvKeyEndFails == chan # <<>> /\ EndFails(Head(chan))

NextLoop ==
    \/ \E k \in LoopKeys : ThreadSend(k)
    \/ ThreadEnds
    \/ RecvKey
    \/ PollTimeout
    \/ RenderFails
    \/ RecvKeyEndFails

\* The loop with an input thread that can end and a terminal that can fail.
SpecLoop == InitLoop /\ [][NextLoop]_vars

\* ================================================================ claims

\* The classification of character c typed at intra-word position p (0-based)
\* of a word with target t.
Classify(c, t, p) ==
    IF p < Len(t)
        THEN IF c = t[p + 1] THEN Correct(c) ELSE Error(c, t[p + 1])
        ELSE Extra(c)

Count(log, kind) == Cardinality({ i \in 1..Len(log) : log[i].kind = kind })

RECURSIVE TotalLen(_)
TotalLen(ws) == IF ws = <<>> THEN 0 ELSE Len(ws[1]) + TotalLen(Tail(ws))

\* C1: a session in which every word is typed exactly and followed by a
\* space, with no other key, never dies on the way, ends by itself after the
\* last space, and returns a result with quit = false, n Complete events,
\* n Start events and sum(len(w_i)) Input events, all of them Correct.
C1_ExactSessionEnds ==
    exact =>
        /\ status # "panic"
        /\ (status = "done") = (word = Len(words))
        /\ status = "done" =>
            /\ quit = << FALSE >>
            /\ result # <<>>
            /\ result[1].quit = FALSE
            /\ Count(result[1].steps, "Complete") = Len(words)
            /\ Count(result[1].steps, "Start") = Len(words)
            /\ Count(result[1].steps, "Input") = TotalLen(words)
            /\ \A i \in 1..Len(result[1].steps) :
                   result[1].steps[i].kind = "Input"
                       => result[1].steps[i].diff.tag = "Correct"

\* The log after the first-keystroke check of a character key.
Started(log) == IF log = <<>> THEN << StepStart(0) >> ELSE log

Space == Key("Char", " ")

\* C2: a space completes the current word if and only if the pending input
\* equals the target: then Complete(word) is logged, the input is cleared,
\* pos is 0, word is incremented and no Input event is logged; otherwise the
\* space is appended to the input, the word index stays, and the space is
\* logged as an Input event classified by its position.
C2_SpaceStep ==
    (status = "running" /\ TakeKey(Space)) =>
        IF input = words[word + 1]
        THEN /\ \/ steps' = Append(Started(steps), StepComplete(word))
                \/ steps' = Append(Append(Started(steps), StepComplete(word)),
                                   StepStart(word + 1))
             /\ input' = <<>>
             /\ pos' = 0
             /\ word' = word + 1
             /\ NumInputs(steps') = NumInputs(steps)
        ELSE /\ input' = Append(input, " ")
             /\ word' = word
             /\ status' # "panic" =>
                    /\ steps' = Append(Started(steps),
                                       StepInput(Classify(" ", words[word + 1], pos)))
                    /\ pos' = pos + 1

C2_SpaceCompletesIffExact == [][C2_SpaceStep]_vars

\* C2 witness: a space was logged as an Extra (the "cats" case) and, later,
\* a space completed the word.
C2_Witness ==
    \E i, j \in 1..Len(steps) :
        /\ i < j
        /\ steps[i] = StepInput(Extra(" "))
        /\ steps[j].kind = "Complete"

\* C3: a character logged as an Input event at position p of target t is
\* Correct(c) if p < len(t) and c = t[p], Error(c, t[p]) if p < len(t) and
\* c # t[p], Extra(c) if p >= len(t); the renderer's buffer holds the same
\* classification at index p; Correct and Error only occur at indices
\* < len(t) and Extra only at indices >= len(t).
C3_Styles ==
    \A i \in 1..Len(render.words) :
        \A j \in 1..Len(render.words[i].chars) :
            /\ render.words[i].chars[j].style \in {"Correct", "Error"}
                   => j <= Len(render.words[i].initial)
            /\ render.words[i].chars[j].style = "Extra"
                   => j > Len(render.words[i].initial)

C3_InputStep ==
    \A k \in CharKeys :
        (status = "running" /\ KeyChar(k) /\ NumInputs(steps') = NumInputs(steps) + 1) =>
            LET d == Classify(k.c, words[word + 1], pos)
            IN  /\ steps' = Append(Started(steps), StepInput(d))
                /\ render'.words[word + 1].chars[pos + 1] = Cell(k.c, d.tag)

Cursor(r) == << r.word, r.line, r.pos >>

\* C4: a Backspace taken while pos = 0 changes nothing: input, word, pos,
\* timer, the renderer's word buffers and cursor and the log keep their
\* values; the word index never decreases.
C4_BackspaceAtZeroStep ==
    /\ (status = "running" /\ pos = 0 /\ TakeKey(Backspace)) =>
           /\ UNCHANGED << input, word, pos, timer, steps, status, quit, result >>
           /\ render'.words = render.words
           /\ Cursor(render') = Cursor(render)
    /\ word' >= word

C4_BackspaceAtZeroNoOp == [][C4_BackspaceAtZeroStep]_vars

\* C4 witness: the loop is about to take a key right after a word was
\* completed (pos = 0, word > 0), where Backspace is the no-op.
C4_Witness ==
    /\ status = "running"
    /\ pos = 0
    /\ word > 0
    /\ steps[Len(steps)] = StepStart(word)

\* C5: a Backspace taken while pos > 0 removes the last character of the
\* input and decrements pos in the session and in the renderer's current
\* word; the reverted buffer entry becomes (initial[index], Empty) with the
\* buffer length unchanged when index < len(initial), and is removed (length
\* minus one) when index >= len(initial); no other entry changes.
C5_BackspaceStep ==
    (status = "running" /\ pos > 0 /\ TakeKey(Backspace)) =>
        LET w == render.words[word + 1]
            w2 == render'.words[word + 1]
        IN  /\ input' = SubSeq(input, 1, Len(input) - 1)
            /\ pos' = pos - 1
            /\ w2.pos = w.pos - 1
            /\ w2.initial = w.initial
            /\ IF w.pos - 1 < Len(w.initial)
               THEN /\ Len(w2.chars) = Len(w.chars)
                    /\ w2.chars[w.pos] = Cell(w.initial[w.pos], "Empty")
                    /\ \A j \in 1..Len(w.chars) : j # w.pos => w2.chars[j] = w.chars[j]
               ELSE /\ Len(w2.chars) = Len(w.chars) - 1
                    /\ \A j \in 1..Len(w2.chars) : w2.chars[j] = w.chars[j]
            /\ \A i \in 1..Len(render.words) :
                   i # word + 1 => render'.words[i] = render.words[i]
            /\ UNCHANGED << word, steps, timer >>

C5_BackspaceReverts == [][C5_BackspaceStep]_vars

\* C5 witness: an Extra character was typed and then removed by Backspace:
\* the log's last event is the Extra, the buffer is back at the target's
\* length and pos is at its end.
C5_Witness ==
    /\ status = "running"
    /\ steps # <<>>
    /\ steps[Len(steps)].diff.tag = "Extra"
    /\ Len(render.words[word + 1].initial) > 0
    /\ Len(render.words[word + 1].chars) = Len(render.words[word + 1].initial)
    /\ render.words[word + 1].pos = Len(render.words[word + 1].initial)
    /\ pos = render.words[word + 1].pos

\* C6: the timer is started once, by the first character keystroke, which
\* appends Start(0) as the first event; no other key and no timeout starts
\* it, and later character keystrokes neither restart it nor log Start(0)
\* again; while the session runs the log is non-empty iff the timer runs.
C6_TimerAndLog ==
    /\ status # "done" => ((steps # <<>>) <=> Timer_running(timer))
    /\ timer_starts <= 1
    /\ steps # <<>> =>
           /\ steps[1] = StepStart(0)
           /\ \A i \in 2..Len(steps) : steps[i] # StepStart(0)

C6_TimerStep ==
    /\ timer_starts' # timer_starts =>
           /\ \E k \in CharKeys : KeyChar(k)
           /\ steps = <<>>
           /\ ~Timer_running(timer)
           /\ timer_starts' = 1
           /\ steps'[1] = StepStart(0)
    /\ (~Timer_running(timer) /\ Timer_running(timer')) => timer_starts' = 1
    /\ \A k \in CharKeys :
           (status = "running" /\ KeyChar(k)) =>
               /\ timer_starts' = 1
               /\ Timer_running(timer') \/ status' = "done"

C6_TimerStartedOnce == []C6_TimerAndLog /\ [][C6_TimerStep]_vars

\* C6 witness: two characters were logged and the timer, started by the
\* first, still runs.
C6_Witness ==
    /\ status = "running"
    /\ NumInputs(steps) >= 2
    /\ Timer_running(timer)
    /\ timer_starts = 1

\* C7: run returns None if and only if it ended by a quit key before any
\* character keystroke was processed (the log is empty); otherwise it
\* returns a raw result with the session's word count and flags and the
\* complete log in append order.
C7_ResultOnExit ==
    status = "done" =>
        /\ (result = <<>>) <=> (quit = << TRUE >> /\ steps = <<>>)
        /\ result # <<>> =>
               /\ result[1].word_count = Len(words)
               /\ result[1].punct = punct
               /\ result[1].numbers = numbers
               /\ result[1].steps = steps

\* C7 witness: run has returned None.
C7_Witness == status = "done" /\ result = <<>> /\ timer_starts = 0

\* C8: the quit flag is false if and only if the session ended because the
\* last word was completed; then Complete(n-1) is the last event, no
\* Start(n) is logged, the timer was stopped once and no further key is
\* processed; the flag is true if and only if a quit key ended the session.
C8_QuitFlag ==
    status = "done" =>
        /\ (quit = << FALSE >>) <=> (word = Len(words))
        /\ (quit = << TRUE >>) <=> (word < Len(words))
        /\ timer_stops <= 1
        /\ result # <<>> => << result[1].quit >> = quit
        /\ quit = << FALSE >> =>
               /\ result # <<>>
               /\ timer_stops = 1
               /\ steps[Len(steps)] = StepComplete(Len(words) - 1)
               /\ \A i \in 1..Len(steps) : steps[i] # StepStart(Len(words))

C8_ExitStep ==
    /\ status # "done"
    /\ status' = "done" =>
           \/ /\ \E k \in QuitKeys : KeyQuit(k)
              /\ quit' = << TRUE >>
           \/ /\ KeyChar(Space)
              /\ input = words[word + 1]
              /\ word + 1 = Len(words)
              /\ quit' = << FALSE >>

C8_QuitFalseIffCompleted == []C8_QuitFlag /\ [][C8_ExitStep]_vars

\* C8 witness: a session of three words ended by completing the last one.
C8_Witness ==
    /\ status = "done"
    /\ quit = << FALSE >>
    /\ Len(words) = 3
    /\ result[1].quit = FALSE

\* C9: a quit key taken in any state of the loop ends it at once with
\* quit = true, appends no event and stops the timer if it was running.
C9_QuitEnabled ==
    status = "running" => \A k \in QuitKeys : ENABLED KeyQuit(k)

C9_QuitStep ==
    \A k \in QuitKeys :
        (status = "running" /\ TakeKey(k)) =>
            /\ status' = "done"
            /\ quit' = << TRUE >>
            /\ steps' = steps
            /\ ~Timer_running(timer')
            /\ timer_stops' = timer_stops + (IF Timer_running(timer) THEN 1 ELSE 0)
            /\ result' # <<>> =>
                   /\ result'[1].quit = TRUE
                   /\ result'[1].steps = steps

C9_QuitEndsSession == []C9_QuitEnabled /\ [][C9_QuitStep]_vars

\* C9 witness: the session was quit with extra characters pending.
C9_Witness ==
    /\ status = "done"
    /\ quit = << TRUE >>
    /\ Len(input) > Len(words[word + 1])
    /\ timer_stops = 1

\* C10: a key that is not a printable character, not a quit key and not an
\* effective Backspace (arrow and function keys, Alt and other Ctrl
\* combinations, and Enter, delivered as Key::Char('\n')) changes nothing:
\* input, word, pos, timer, the renderer's word buffers and cursor and the
\* log keep their values and the session continues.
C10_IgnoredStep ==
    \A k \in OtherKeys \cup { Key("Char", "\n") } :
        (status = "running" /\ TakeKey(k)) =>
            /\ UNCHANGED << input, word, pos, timer, steps, status, quit, result >>
            /\ render'.words = render.words
            /\ Cursor(render') = Cursor(render)

C10_IgnoredKeysChangeNothing == [][C10_IgnoredStep]_vars

\* s is a prefix of t.
IsPrefix(s, t) == Len(s) <= Len(t) /\ SubSeq(t, 1, Len(s)) = s

\* C11: the event log is append-only: the log before a step is a prefix of
\* the log after it, and so are the events' instants; an effective Backspace
\* leaves the log as it is (the Input event of the reverted character stays
\* and no event is added); the instants of successive events never decrease.
C11_Instants ==
    /\ Len(instants) = Len(steps)
    /\ \A i \in 1..Len(instants) : \A j \in i..Len(instants) :
           instants[i] <= instants[j]

C11_LogStep ==
    /\ IsPrefix(steps, steps')
    /\ IsPrefix(instants, instants')
    /\ (status = "running" /\ TakeKey(Backspace)) =>
           /\ steps' = steps
           /\ instants' = instants

C11_LogAppendOnly == []C11_Instants /\ [][C11_LogStep]_vars

\* C11 witness: a character was typed, the clock advanced, the character was
\* reverted by Backspace and another one was typed: both Input events are in
\* the log, with different instants.
C11_Witness ==
    /\ status = "running"
    /\ NumInputs(steps) = 2
    /\ pos = 1
    /\ word = 0
    /\ instants[Len(instants)] > instants[1]

\* The index of the last Start or Complete event before index i (0 if none).
LastMarker(log, i) ==
    LET M == { j \in 1..(i - 1) : log[j].kind # "Input" }
    IN  IF M = {} THEN 0 ELSE CHOOSE j \in M : \A k \in M : k <= j

\* C12: the log has the shape Start(0) Input* (Complete(0) Start(1) Input*
\* (Complete(1) Start(2) ...)): the first event is Start(0); a later Start(w)
\* directly follows Complete(w-1); Complete(w) closes the open Start(w), is
\* directly followed by Start(w+1) unless w is the last word, and then ends
\* the log; every Input event lies after a Start with no Complete between,
\* and the open Start is the one of the session's current word.
C12_LogShape ==
    /\ \A i \in 1..Len(steps) :
        LET e == steps[i]
            j == LastMarker(steps, i)
        IN  /\ i = 1 => (e.kind = "Start" /\ e.word = 0)
            /\ (e.kind = "Start" /\ i > 1) =>
                   /\ steps[i - 1].kind = "Complete"
                   /\ e.word = steps[i - 1].word + 1
            /\ e.kind = "Complete" =>
                   /\ j > 0
                   /\ steps[j].kind = "Start"
                   /\ steps[j].word = e.word
                   /\ e.word < Len(words)
                   /\ IF e.word = Len(words) - 1
                      THEN i = Len(steps)
                      ELSE /\ i < Len(steps)
                           /\ steps[i + 1].kind = "Start"
                           /\ steps[i + 1].word = e.word + 1
            /\ e.kind = "Input" =>
                   /\ j > 0
                   /\ steps[j].kind = "Start"
    /\ (steps # <<>> /\ status # "done") =>
        LET j == LastMarker(steps, Len(steps) + 1)
        IN  steps[j].kind = "Start" /\ steps[j].word = word

\* C12 witness: a session of two words ended with the log Start(0) Input
\* Complete(0) Start(1) Input Input Complete(1).
C12_Witness ==
    /\ status = "done"
    /\ Len(steps) = 7
    /\ steps[2].kind = "Input"
    /\ steps[3].kind = "Complete" /\ steps[3].word = 0
    /\ steps[4].kind = "Start" /\ steps[4].word = 1
    /\ steps[7].kind = "Complete" /\ steps[7].word = 1

\* C13: every word of the renderer, after any sequence of pushes and pops,
\* has pos <= len(chars) and len(chars) >= len(initial), and every buffer
\* entry at an index >= pos is the untouched placeholder (initial[index],
\* Empty): no Correct, Error or Extra entry remains at or beyond pos.
C13_WordInvariant ==
    \A i \in 1..Len(render.words) :
        LET w == render.words[i]
        IN  /\ w.pos <= Len(w.chars)
            /\ Len(w.chars) >= Len(w.initial)
            /\ \A j \in (w.pos + 1)..Len(w.chars) :
                   /\ j <= Len(w.initial)
                   /\ w.chars[j] = Cell(w.initial[j], "Empty")

\* C13 witness: a character and an Extra were pushed to the first word and
\* both were popped again: the buffer is back to its placeholders.
C13_Witness ==
    /\ status = "running"
    /\ word = 0
    /\ \E i \in 1..Len(steps) : steps[i].diff.tag = "Extra"
    /\ Len(render.words[1].initial) > 0
    /\ render.words[1].pos = 0
    /\ render.words[1].chars = Word_from(words[1]).chars

\* The display width of the words ws[a+1..b] (0-based half-open [a, b)),
\* each followed by one space.
RECURSIVE WidthPlusSpaces(_, _, _)
WidthPlusSpaces(ws, a, b) ==
    IF a >= b THEN 0
    ELSE SumWidth(ws[a + 1].chars) + 1 + WidthPlusSpaces(ws, a + 1, b)

\* C14: for every non-empty word sequence and every width >= 0 the lines of
\* wrap partition the word indices: the first line starts at 0, each line's
\* end is the next line's start, the last line ends at the number of words,
\* every line is non-empty, so every word index lies in exactly one line, in
\* order; each line's len is the sum over its words of (display width + 1).
C14_WrapPartitions ==
    status = "running" =>
        LET ls == render.lines
            n == Len(render.words)
        IN  /\ Len(ls) >= 1
            /\ ls[1].start = 0
            /\ ls[Len(ls)].end = n
            /\ \A l \in 1..Len(ls) :
                   /\ ls[l].start < ls[l].end
                   /\ l < Len(ls) => ls[l].end = ls[l + 1].start
                   /\ ls[l].len = WidthPlusSpaces(render.words, ls[l].start, ls[l].end)
            /\ \A i \in 0..(n - 1) :
                   Cardinality({ l \in 1..Len(ls) :
                                   ls[l].start <= i /\ i < ls[l].end }) = 1

\* C14 witness: three words were wrapped into a line of two words and a
\* line of one.
C14_Witness ==
    /\ status = "running"
    /\ Len(render.words) = 3
    /\ Len(render.lines) = 2
    /\ render.lines[1].end = 2
    /\ render.lines[1].len = 5

\* The start of the line of ls that holds word index i.
LineStartOf(ls, i) ==
    ls[CHOOSE l \in 1..Len(ls) : ls[l].start <= i /\ i < ls[l].end].start

\* C15: wrap is greedy: a line is closed before word i exactly when it holds
\* at least one word and its accumulated width (each earlier word's width
\* plus one space) plus the width of word i exceeds the available width; so
\* a line of more than one word has words-plus-inner-spaces width <= the
\* available width, and the first word of a line would not have fitted on
\* the line before it.
C15_WrapGreedy ==
    status = "running" =>
        LET ls == render.lines
            ws == render.words
            width == BoxWidth(cols)
        IN  /\ \A i \in 1..(Len(ws) - 1) :
                   LET acc == WidthPlusSpaces(ws, LineStartOf(ls, i - 1), i)
                   IN  (\E l \in 1..Len(ls) : ls[l].start = i)
                           <=> (acc + SumWidth(ws[i + 1].chars) > width)
            /\ \A l \in 1..Len(ls) :
                   /\ ls[l].end - ls[l].start > 1 =>
                          WidthPlusSpaces(ws, ls[l].start, ls[l].end) - 1 <= width
                   /\ l > 1 =>
                          ls[l - 1].len + SumWidth(ws[ls[l].start + 1].chars) > width

\* C15 witness: a single word wider than the box has a line of its own and
\* the two words after it share the next line, filling it exactly.
C15_Witness ==
    /\ status = "running"
    /\ Len(render.words) = 3
    /\ Len(render.lines) = 2
    /\ render.lines[1].end = 1
    /\ render.lines[1].len - 1 > BoxWidth(cols)
    /\ render.lines[2].len - 1 = BoxWidth(cols)

\* The display width of the typed characters of word buffer w: the entries
\* at indices < pos.
TypedWidth(w) == SumWidth(SubSeq(w.chars, 1, w.pos))

\* C16: when a character is accepted (correct, error or extra) and the
\* cursor stays on its line, the cursor column increases by the display
\* width of the character that was just typed, whatever the widths of the
\* other characters in the word's buffer.
C16_ColumnStep ==
    \A k \in CharKeys :
        ( /\ status = "running"
          /\ KeyChar(k)
          /\ NumInputs(steps') = NumInputs(steps) + 1
          /\ render'.line = render.line ) =>
            render'.pos = render.pos + CharWidth(k.c)

C16_ColumnAdvancesByTypedWidth == [][C16_ColumnStep]_vars

\* C17: when a forward cursor move takes the cursor to the next line, its
\* column is set to the total display width of the already-typed characters
\* of the current word (indices < pos), placeholders not counted: 0 when the
\* move is the advance to a fresh word after a completed one.
C17_LineStep ==
    \A k \in CharKeys :
        ( /\ status = "running"
          /\ KeyChar(k)
          /\ status' = "running"
          /\ render'.line = render.line + 1 ) =>
            /\ render'.pos = TypedWidth(render'.words[render'.word + 1])
            /\ render'.word = render.word + 1 => render'.pos = 0

C17_NextLineColumnIsTypedWidth == [][C17_LineStep]_vars

\* The index (0-based) of the line of the layout of r that holds word w.
LineOf(r, w) ==
    CHOOSE l \in 0..(Len(r.lines) - 1) :
        r.lines[l + 1].start <= w /\ w < r.lines[l + 1].end

\* C18: at a fixed terminal width, after any sequence of accepted
\* characters, completions and backspaces, the renderer's cursor is the
\* layout position of the write point: line is the layout line that holds
\* the current word, and pos is the sum of (display width + 1) of the words
\* before it on that line plus the width of its characters at indices < pos.
C18_CursorIsLayoutPosition ==
    status = "running" =>
        /\ render.line = LineOf(render, render.word)
        /\ render.pos =
               WidthPlusSpaces(render.words,
                               render.lines[render.line + 1].start, render.word)
               + TypedWidth(render.words[render.word + 1])

\* The terminal as run must leave it: cooked mode, main screen, the cursor
\* shape set back by end's SteadyBlock.
Restored == [raw |-> FALSE, alt |-> FALSE, shape |-> "SteadyBlock"]

\* C19: on every exit path of the session (normal completion, quit, and an
\* I/O error returned from a renderer call inside the loop) raw mode is
\* left, the alternate screen is left and the cursor shape is set back
\* before run returns.
C19_TerminalRestoredOnExit ==
    (status = "done" \/ (status = "error" /\ quit = <<>>)) => term = Restored

\* C20: a single failure of a terminal operation in the loop ends the
\* session at once: run returns Err, the operation is not retried (a session
\* sees at most one failure), no step follows the failure, so no further
\* key is processed, and no raw result, neither Some nor None, is produced.
C20_AfterFailure ==
    /\ io_errors <= 1
    /\ io_errors = 1 =>
           /\ status = "error"
           /\ result = <<>>
           /\ timer_stops = 0

C20_FailureStep ==
    /\ io_errors = 0
    /\ io_errors' # io_errors =>
           /\ status' = "error"
           /\ io_errors' = 1
           /\ IsPrefix(steps, steps')

C20_FailureEndsSession == []C20_AfterFailure /\ [][C20_FailureStep]_vars

\* C20 witness: run returned Err from inside the loop (the loop never broke)
\* after characters were typed, with the timer still running.
C20_Witness ==
    /\ status = "error"
    /\ quit = <<>>
    /\ io_errors = 1
    /\ NumInputs(steps) >= 2
    /\ Timer_running(timer)

\* The values of the type that lie in the range start..end.
Members(start, end_bound, bits) ==
    { v \in 0..(2 ^ bits - 1) :
        /\ start.kind = "Included" => v >= start.x
        /\ start.kind = "Excluded" => v > start.x
        /\ end_bound.kind = "Included" => v <= end_bound.x
        /\ end_bound.kind = "Excluded" => v < end_bound.x }

CallMembers == Members(call.start, call.end, call.ty.bits)

\* C22: a bounded draw over a non-empty range does not panic and returns a
\* member of the range, whatever the ends' kinds, the type and the raw
\* values; over the type's full range it returns the raw value (cut to the
\* type's width, which for u64 and usize is the raw value itself).
C22_DrawInRange ==
    (call.op = "int" /\ call.pc # "entry" /\ CallMembers # {}) =>
        /\ call.pc # "panic"
        /\ call.pc = "done" =>
            /\ call.result \in CallMembers
            /\ CallMembers = 0..(2 ^ call.ty.bits - 1) =>
                /\ call.draws = 1
                /\ call.result = call.r % (2 ^ call.ty.bits)
                /\ call.ty.gen = call.ty.bits => call.result = call.r

C22_Witness ==
    /\ call.op = "int"
    /\ call.pc = "done"
    /\ call.ty.name = "u8"
    /\ call.start = Excluded(0)
    /\ call.end = Included(2 ^ U8Bits - 1)
    /\ call.draws = 2
    /\ call.result = 2 ^ U8Bits - 1

\* C23: a bounded draw over an empty range (low > high, an excluded start at
\* the type's maximum, an excluded end at the type's minimum) panics: it
\* returns no value and takes no raw value from the generator.
C23_EmptyRangePanics ==
    (call.op = "int" /\ call.pc # "entry" /\ CallMembers = {}) =>
        /\ call.pc = "panic"
        /\ call.draws = 0
        /\ call.r = NoValue
        /\ call.result = NoValue

C23_Witness ==
    /\ call.op = "int"
    /\ call.pc = "panic"
    /\ call.start = Excluded(2 ^ call.ty.bits - 1)
    /\ call.end = Unbounded

\* The low and the high half of the double-width product r * len.
LowHalf(r, len, W) == (r * len) % (2 ^ W)
HighHalf(r, len, W) == (r * len) \div (2 ^ W)

\* C24: in the reduction to [0, len) a raw W-bit value is accepted exactly
\* when the low half of r * len is at least 2^W mod len, the value returned
\* is the high half, and every value of [0, len) is the result of exactly
\* floor(2^W / len) accepted raw values.
C24_Unbiased ==
    (call.op = "int" /\ call.pc \in {"mod", "done"} /\ call.n > 0) =>
        LET W == call.ty.gen
            len == call.n
            Raw == 0..(2 ^ W - 1)
            Accepted == { r \in Raw : ~gen_mod_rejects(r, len, W) }
        IN  /\ len \in 1..(2 ^ W - 1)
            /\ \A r \in Raw :
                   r \in Accepted <=> LowHalf(r, len, W) >= (2 ^ W) % len
            /\ \A v \in 0..(len - 1) :
                   Cardinality({ r \in Accepted : mul_high(r, len, W) = v })
                       = (2 ^ W) \div len
            /\ call.draws > 0 =>
                   (call.pc = "done" <=>
                        LowHalf(call.r, len, W) >= (2 ^ W) % len)
            /\ call.pc = "done" =>
                   call.result = call.low + HighHalf(call.r, len, W)

C24_Witness ==
    /\ call.op = "int"
    /\ call.pc = "done"
    /\ call.ty.name = "u64"
    /\ call.n = 3
    /\ call.draws = 2
    /\ call.result = call.high

\* The entries of a sequence.
Range(seq) == { seq[j] : j \in 1..Len(seq) }

\* Every sequence of draws the loop can make on n items: the draw at offset
\* i is any of [0, amount + i].
DrawSeqs(n, amount) ==
    IF n <= amount THEN { <<>> }
    ELSE { d \in [1..(n - amount) -> 0..(n - 1)] :
             \A i \in 1..(n - amount) : d[i] <= amount + i - 1 }

\* C25: choose_multiple fills the buffer with the first k items; the item
\* at offset i after them draws j from [0, k+i] and overwrites slot j only
\* if j < k; over all sequences of draws on n >= k items each item is in
\* the final buffer in exactly k/n of them.
C25_Inclusion ==
    (call.op = "choose" /\ call.pc = "done"
        /\ Len(call.corpus) >= call.amount) =>
        LET n == Len(call.corpus)
            k == call.amount
            All == DrawSeqs(n, k)
        IN  /\ call.drawn \in All
            /\ call.reservoir = choose_multiple(n, k, call.drawn)
            /\ \A x \in 1..n :
                   Cardinality({ d \in All :
                       x \in Range(choose_multiple(n, k, d)) }) * n
                     = k * Cardinality(All)

C25_DrawStep ==
    (call.op = "choose" /\ call.pc = "loop" /\ call'.drawn # call.drawn) =>
        LET k == call.amount
            i == call.i
            j == call'.drawn[Len(call'.drawn)]
            item == k + i + 1
        IN  /\ call.reservoir = [ s \in 1..k |-> call.reservoir[s] ]
            /\ i = Len(call.drawn)
            /\ j \in 0..(k + i)
            /\ call'.drawn = Append(call.drawn, j)
            /\ call'.reservoir =
                   IF j < k THEN [call.reservoir EXCEPT ![j + 1] = item]
                   ELSE call.reservoir

C25_ReservoirSampling == []C25_Inclusion /\ [][C25_DrawStep]_vars

C25_Witness ==
    /\ call.op = "choose"
    /\ call.pc = "done"
    /\ call.amount = 2
    /\ Len(call.corpus) = 4
    /\ call.reservoir = <<4, 3>>

Min(a, b) == IF a < b THEN a ELSE b

\* C26: choose(n) on a corpus of m words returns min(n, m) words, the words
\* at pairwise distinct corpus positions; the whole corpus in order when
\* m <= n; nothing when n = 0; and it never panics.
C26_WithoutReplacement ==
    (call.op = "choose" /\ call.pc = "done") =>
        LET m == Len(call.corpus)
            n == call.amount
        IN  /\ Len(call.chosen) = Min(n, m)
            /\ Len(call.reservoir) = Len(call.chosen)
            /\ \A j \in 1..Len(call.chosen) :
                   /\ call.reservoir[j] \in 1..m
                   /\ call.chosen[j] = call.corpus[call.reservoir[j]]
            /\ \A a, b \in 1..Len(call.reservoir) :
                   a # b => call.reservoir[a] # call.reservoir[b]
            /\ m <= n => call.chosen = call.corpus
            /\ n = 0 => call.chosen = <<>>

C26_Witness ==
    /\ call.op = "choose"
    /\ call.pc = "done"
    /\ call.amount = 2
    /\ Len(call.corpus) = 4
    /\ call.drawn = <<1, 1>>
    /\ call.chosen = <<CorpusWord(1), CorpusWord(4)>>

\* The value of a sequence of decimal digits, -1 when it is not one.
RECURSIVE DecimalValue(_)
DecimalValue(w) ==
    IF w = <<>> THEN 0
    ELSE LET d == { n \in 0..9 : DigitChars[n + 1] = w[Len(w)] }
             rest == DecimalValue(SubSeq(w, 1, Len(w) - 1))
         IN  IF d = {} \/ rest < 0 THEN -1
             ELSE 10 * rest + (CHOOSE n \in d : TRUE)

\* w is the decimal string of an integer in 0..=255.
IsByteString(w) ==
    /\ w # <<>>
    /\ Len(w) > 1 => w[1] # "0"
    /\ DecimalValue(w) \in 0..255

\* The positions the numbers pass has written so far.
Replaced == { call.indices[j] : j \in 1..call.at }

\* C27: with numbers set, choose_with replaces the words at exactly
\* min(floor(n/16), number of chosen words) distinct positions by the
\* decimal string of a byte, leaves the other positions and the length as
\* chosen, and never indexes outside the chosen sequence; with numbers
\* unset nothing is replaced.
C27_NumbersPass ==
    (call.op = "choose_with" /\ call.pc # "chosen") =>
        /\ call.pc # "panic"
        /\ Len(call.chosen) = Len(call.original)
        /\ Replaced \subseteq 1..Len(call.chosen)
        /\ Cardinality(Replaced) = call.at
        /\ \A j \in 1..Len(call.chosen) :
               IF j \in Replaced THEN IsByteString(call.chosen[j])
               ELSE call.chosen[j] = call.original[j]
        /\ call.pc = "done" =>
               IF call.numbers
               THEN Cardinality(Replaced)
                        = Min(call.amount \div 16, Len(call.original))
               ELSE call.chosen = call.original /\ Replaced = {}

C27_Witness ==
    /\ call.op = "choose_with"
    /\ call.pc = "done"
    /\ call.numbers
    /\ call.amount = 32
    /\ Len(call.original) = 3
    /\ call.chosen = << CorpusWord(1), to_string(255), to_string(10) >>

\* The uppercase of a char, and a word with its first char uppercased.
UpperChar(c) == CASE c = "a" -> "A" [] c = "é" -> "É" [] OTHER -> c

UpperFirst(w) == IF w = <<>> THEN w ELSE [w EXCEPT ![1] = UpperChar(w[1])]

\* The j-th word received terminal punctuation: '.', '?' or '!' was
\* appended to it.
GotTerminal(j) ==
    \E t \in {".", "?", "!"} : call.words[j] = Append(call.cased[j], t)

\* C28: the flag is set exactly when a word receives terminal punctuation;
\* the word right after such a word has its first character uppercased,
\* with the flag cleared, before its own draw; a word that does not follow
\* a terminal-punctuated word is not uppercased.
C28_UppercaseAfterTerminal ==
    (call.op = "punctuate") =>
        /\ call.last_terminal <=> (call.i > 0 /\ GotTerminal(call.i))
        /\ \A j \in 1..call.i :
               /\ call.flags[j] <=> (j > 1 /\ GotTerminal(j - 1))
               /\ call.cased[j] =
                      IF j > 1 /\ GotTerminal(j - 1)
                      THEN UpperFirst(call.original[j])
                      ELSE call.original[j]

\* The same for words whose first char is ASCII.
C28_AsciiOnly ==
    (call.op = "punctuate") =>
        /\ call.last_terminal <=> (call.i > 0 /\ GotTerminal(call.i))
        /\ \A j \in 1..call.i :
               /\ call.flags[j] <=> (j > 1 /\ GotTerminal(j - 1))
               /\ (call.original[j] = <<>> \/ len_utf8(call.original[j][1]) = 1) =>
                      call.cased[j] =
                          IF j > 1 /\ GotTerminal(j - 1)
                          THEN UpperFirst(call.original[j])
                          ELSE call.original[j]

\* C21: a session never starts with an empty word sequence: with a word
\* count of 0 or an empty corpus the program stops (exit or panic) before
\* the input thread is spawned, before the terminal leaves its cooked
\* state, and before any key is read.
C21_EmptyRejected ==
    /\ (status # "main" /\ words = <<>>) =>
           /\ status \in {"exit", "chosen", "panic"}
           /\ thread = "unspawned"
           /\ term = Terminal_cooked
           /\ render = NoRender
           /\ decoded = <<>> /\ chan = <<>> /\ applied = <<>>
    /\ (call.op = "main" /\ call.word_count = 0) => status \in {"main", "exit"}
    /\ (call.op = "main" /\ call.corpus = <<>> /\ call.word_count > 0) =>
           status \in {"main", "chosen", "panic"}
    /\ (thread # "unspawned" \/ status = "running") => words # <<>>

C21_Witness ==
    /\ status = "panic"
    /\ words = <<>>
    /\ call.op = "main"
    /\ call.corpus = <<>>
    /\ call.word_count = 2
    /\ thread = "unspawned"

\* The session state after the keys ks, applied in order to the words ws:
\* input, word, pos, the log, and whether the session is over.
ReplayKey(st, ws, k) ==
    IF st.over THEN st
    ELSE IF k.kind = "Esc" \/ (k.kind = "Ctrl" /\ k.c \in {"c", "d", "q", "z"})
    THEN [st EXCEPT !.over = TRUE]
    ELSE IF k.kind = "Char"
    THEN LET log == Started(st.steps)
         IN  IF k.c = " " /\ st.input = ws[st.word + 1]
             THEN [ input |-> <<>>, word |-> st.word + 1, pos |-> 0,
                    steps |-> IF st.word + 1 = Len(ws)
                              THEN Append(log, StepComplete(st.word))
                              ELSE log \o << StepComplete(st.word),
                                             StepStart(st.word + 1) >>,
                    over |-> st.word + 1 = Len(ws) ]
             ELSE [st EXCEPT
                      !.input = Append(@, k.c),
                      !.pos = @ + 1,
                      !.steps = Append(log,
                          StepInput(Classify(k.c, ws[st.word + 1], st.pos)))]
    ELSE IF k.kind = "Backspace" /\ st.pos > 0
    THEN [st EXCEPT !.input = SubSeq(@, 1, Len(@) - 1), !.pos = @ - 1]
    ELSE st

RECURSIVE Replay(_, _, _)
Replay(st, ws, ks) ==
    IF ks = <<>> THEN st ELSE Replay(ReplayKey(st, ws, Head(ks)), ws, Tail(ks))

ReplayStart ==
    [input |-> <<>>, word |-> 0, pos |-> 0, steps |-> <<>>, over |-> FALSE]

\* C29: the keys the loop has received, followed by those still in the
\* channel, are the keys the thread decoded, in its order (none applied
\* twice, none out of order); and the session state is the one the applied
\* keys give in that order, whatever the interleaving of sends and polls.
C29_Channel ==
    /\ IsPrefix(applied \o chan, decoded)
    /\ thread # "exited" => applied \o chan = decoded
    /\ status \in {"running", "done"} =>
           LET st == Replay(ReplayStart, words, applied)
           IN  /\ input = st.input
               /\ word = st.word
               /\ pos = st.pos
               /\ steps = st.steps
               /\ (status = "done") = st.over

\* A step of the input thread leaves the session state, the renderer and
\* the keys already applied as they are.
C29_SendStep ==
    decoded' # decoded =>
        /\ UNCHANGED << session, render, exact, instants, term, applied >>
        /\ \/ chan' = Append(chan, decoded'[Len(decoded')])
           \/ chan' = chan /\ ReceiverDropped

C29_KeysInOrder == []C29_Channel /\ [][C29_SendStep]_vars

C29_Witness ==
    /\ status = "running"
    /\ decoded = << Key("Char", "a"), Backspace, Key("Char", " ") >>
    /\ applied = << Key("Char", "a"), Backspace >>
    /\ chan = << Key("Char", " ") >>
    /\ input = <<>>

\* C30: a key that changes session or renderer state and does not end the
\* session is followed, before the next key is taken, by a render of the
\* new state: the terminal shows the frame of the renderer as the key left
\* it.  A poll that times out renders, and changes no session state, no
\* word buffer of the renderer and no event.
C30_KeyStep ==
    (applied' # applied /\ status' = "running"
        /\ << session, render >>' # << session, render >>) =>
        /\ screen' = paint(render', cols)
        /\ render'.lines = wrap(render'.words, cols \div 2)

C30_TimeoutStep ==
    (status = "running" /\ UNCHANGED << applied, decoded, cols >>) =>
        /\ chan = <<>>
        /\ UNCHANGED << session, instants, chan >>
        /\ render'.words = render.words
        /\ render'.word = render.word
        /\ render'.line = render.line
        /\ render'.pos = render.pos
        /\ screen' = paint(render', cols)
        /\ render'.lines = wrap(render.words, cols \div 2)

C30_RenderAfterKey == [][C30_KeyStep]_vars /\ [][C30_TimeoutStep]_vars

C30_Witness ==
    /\ status = "running"
    /\ applied = << Key("Char", "a"), Key("Char", " ") >>
    /\ word = 1
    /\ cols = 4
    /\ chan = <<>>
    /\ screen = paint(render, 4)
    /\ Len(screen.rows) = 2

\* The renderer after the session accepts the character c in its current
\* state (push in the diff's style, cursor move, next frame), and after a
\* Backspace that follows it.
AfterChar(c) ==
    LET diff == diff_at(Append(input, c), words[word + 1], pos)
        p == render_push(render, c, diff, cols)
    IN  IF p.ok THEN render_frame(p.r, cols) ELSE p

AfterCharBackspace(c) ==
    LET a == AfterChar(c)
        u == undo(a.r, cols)
    IN  IF ~a.ok THEN a
        ELSE IF u.ok THEN render_frame(u.r, cols) ELSE u

\* C31: at a fixed width, accepting one character and then pressing
\* Backspace restores the renderer: the current word's buffer and pos, the
\* cursor line and the cursor column are what they were before.
C31_UndoRestores ==
    (status = "running" /\ word < Len(words)) =>
        \A k \in CharKeys :
            (~CompletesWord(k.c) /\ AfterChar(k.c).ok) =>
                LET b == AfterCharBackspace(k.c)
                IN  /\ b.ok
                    /\ b.r.words = render.words
                    /\ b.r.word = render.word
                    /\ b.r.line = render.line
                    /\ b.r.pos = render.pos

\* The channel is disconnected: the thread has ended and nothing is queued.
Disconnected == thread = "exited" /\ chan = <<>>

\* C32: the loop is left only on a quit key, on the space that completes
\* the last word, or on a terminal I/O error; a poll that finds no key never
\* ends it; and once the channel is disconnected the loop stays in the
\* session for ever (short of an I/O error) and returns no result.
C32_ExitStep ==
    (status = "running" /\ status' # "running") =>
        \/ /\ status' = "done"
           /\ applied' = Append(applied, Head(chan))
           /\ IsQuitKey(Head(chan))
           /\ quit' = << TRUE >>
        \/ /\ status' = "done"
           /\ applied' = Append(applied, Head(chan))
           /\ Head(chan) = Key("Char", " ")
           /\ word' = Len(words)
           /\ quit' = << FALSE >>
        \/ /\ status' = "error"
           /\ io_errors' = io_errors + 1

C32_NoKeyStep ==
    (status = "running" /\ chan = <<>> /\ io_errors' = io_errors) =>
        /\ status' = "running"
        /\ UNCHANGED << session, applied >>

C32_DisconnectedStep ==
    (status = "running" /\ Disconnected) =>
        /\ Disconnected'
        /\ status' \in {"running", "error"}
        /\ result' = <<>>
        /\ quit' = <<>>

C32_UnlessPanic ==
    [][status' # "panic" => C32_ExitStep]_vars
        /\ [][C32_NoKeyStep]_vars /\ [][C32_DisconnectedStep]_vars

\* cursor_forward called on the renderer r0 reads lines[line] at a valid
\* index, if it gets as far as the read (the unwraps before it succeed).
ForwardReadInRange(r0) ==
    LET u == update_lines(r0, cols)
        r == u.r
    IN  ( /\ u.ok
          /\ r.word < Len(r.words)
          /\ Word_last(r.words[r.word + 1]) # <<>> ) =>
            r.line < Len(r.lines)

\* cursor_back called on the renderer r0 reads lines[line], after moving
\* to the previous line, at a valid index.
BackReadInRange(r0) ==
    LET u == update_lines(r0, cols)
        r == u.r
    IN  ( /\ u.ok
          /\ r.word < Len(r.words)
          /\ Word_last(r.words[r.word + 1]) # <<>>
          /\ r.pos < CharWidth(Word_last(r.words[r.word + 1])[1])
          /\ r.line > 0 ) =>
            r.line - 1 < Len(r.lines)

\* The renderer on which the handler of the character c, or of Backspace,
\* calls the cursor move.
PushedBy(c) ==
    [render EXCEPT !.words[render.word + 1] =
        Word_push(render.words[render.word + 1], c,
                  StyleOf(diff_at(Append(input, c), words[word + 1], pos)))]

Popped ==
    [render EXCEPT !.words[render.word + 1] =
        Word_pop(render.words[render.word + 1]).w]

\* Every cursor move the next key can cause reads lines[line] in range.
CursorReadsInRange ==
    (status = "running" /\ word < Len(words) /\ render.word < Len(render.words)) =>
        /\ \A k \in CharKeys :
               IF CompletesWord(k.c)
               THEN ~TestOver(word + 1) =>
                        ForwardReadInRange([render EXCEPT !.word = render.word + 1])
               ELSE diff_at(Append(input, k.c), words[word + 1], pos) # Unreachable =>
                        ForwardReadInRange(PushedBy(k.c))
        /\ (pos > 0 /\ Word_pop(render.words[render.word + 1]).popped) =>
               BackReadInRange(Popped)

\* C33: after any keys interleaved with changes of the terminal width, the
\* cursor's line index is a valid index into the layout recomputed for the
\* current width whenever cursor_forward or cursor_back reads lines[line].
C33_LineIndexValidUnderResize == CursorReadsInRange /\ cols \in Cols

\* The keys of C34: printable characters, Space and Backspace (Enter is a
\* control character and is the case of C10).
PrintableKeys == { k \in CharKeys : CharWidth(k.c) # NoWidth } \cup { Backspace }

C34_PrintableStep ==
    (status = "running" /\ \E k \in PrintableKeys : TakeKey(k)) =>
        status' # "panic"

\* C34: at a fixed terminal width, for every word sequence (zero-length
\* words included) and every sequence of printable-character, Space and
\* Backspace keys, no step panics.
C34_NoPanicAtFixedWidth == [][C34_PrintableStep]_vars

\* The buffer of a completed word: its target, every character Correct.
CompletedBuffer(target) ==
    [ j \in 1..Len(target) |-> Cell(target[j], "Correct") ]

\* The session and the renderer agree on the word and the position, and
\* every word below the current one shows its target, all Correct.
SessionAgreesWithRender ==
    status = "running" =>
        /\ word < Len(words)
        /\ render.word = word
        /\ render.words[word + 1].pos = pos
        /\ pos = Len(input)
        /\ \A i \in 1..word :
               /\ render.words[i].chars = CompletedBuffer(words[i])
               /\ render.words[i].pos = Len(words[i])

\* A step of the running loop leaves the words below the current one alone.
CompletedWordsFrozen ==
    (status = "running" /\ status' = "running") =>
        \A i \in 1..word : render'.words[i] = render.words[i]

\* C35: whenever the loop is about to take a key, the session's word index
\* equals the renderer's, the session's pos equals the current renderer
\* word's pos and the length of the pending input, and every word below the
\* current one has a buffer equal to its target, all Correct, with no extra
\* characters, which no later key changes.
C35_SessionAndRendererAgree ==
    []SessionAgreesWithRender /\ [][CompletedWordsFrozen]_vars

\* A word completed after a correction, and the next one begun with an
\* extra character beyond its target.
C35_Witness ==
    /\ status = "running"
    /\ word = 1
    /\ words[1] # <<>>
    /\ pos > Len(words[2])
    /\ \E i \in 1..Len(steps) : steps[i].kind = "Input" /\ steps[i].diff.tag = "Error"


====
